---- MODULE Spec2Model ----
(***************************************************************************)
(* OP_RAND: commitment / key-tweaking scheme, script templates and the     *)
(* transaction builder (crates/types, crates/transaction-builder), run     *)
(* against a small model of the chain that validates what they produce.    *)
(*                                                                         *)
(* secp256k1 is modelled as the cyclic group Z_CurveOrder written          *)
(* additively: a secret key is a scalar in 1..CurveOrder-1, a public key   *)
(* is the point Generator*sk, the point 0 is the point at infinity.        *)
(* SHA-256 of a serialized point is a fixed injective map into             *)
(* 0..HashSpace-1 (collision free on the model's domain), some of whose    *)
(* values are not valid scalars.                                           *)
(***************************************************************************)
EXTENDS Integers, Sequences, FiniteSets, TLC

(***************************************************************************)
(* Bounds of the model                                                     *)
(***************************************************************************)
\* most wallet UTXOs a party passes as previous_outputs
MaxUtxos == 2
\* largest lock time / chain height explored
MaxLockTime == 2

(***************************************************************************)
(* Results and options                                                     *)
(***************************************************************************)
Ok(v) == [ok |-> TRUE, val |-> v, err |-> ""]
Err(e) == [ok |-> FALSE, val |-> <<>>, err |-> e]
\* the value of a variable that holds the result of a call not made yet
NotCalled == [ok |-> FALSE, val |-> <<>>, err |-> "NotCalled"]

None == <<>>
Some(x) == <<x>>
unwrap_or(o, d) == IF o = <<>> THEN d ELSE o[1]

(***************************************************************************)
(* secp256k1                                                               *)
(***************************************************************************)
CurveOrder == 7
Generator == 3
HashSpace == 9

SecretKeys == 1..(CurveOrder - 1)
Points == 1..(CurveOrder - 1)

\* SecretKey::public_key
PublicKeyOf(sk) == (Generator * sk) % CurveOrder

\* SecretKey::from_slice: zero and values not below the order are rejected
SecretKey_from_slice(n) ==
    IF n = 0 \/ n >= CurveOrder THEN Err("InvalidSecretKey") ELSE Ok(n)

\* SecretKey::add_tweak: scalar addition, a zero result is rejected
SecretKey_add_tweak(sk, tweak) ==
    IF (sk + tweak) % CurveOrder = 0
    THEN Err("InvalidTweak")
    ELSE Ok((sk + tweak) % CurveOrder)

\* PublicKey::combine: point addition, the point at infinity is rejected
PublicKey_combine(p, q) ==
    IF (p + q) % CurveOrder = 0
    THEN Err("InvalidPublicKeySum")
    ELSE Ok((p + q) % CurveOrder)

\* PublicKey::negate
PublicKey_negate(p) == (CurveOrder - p) % CurveOrder

\* PublicKey::serialize (compressed): parity prefix, then the x coordinate,
\* which a point shares with its negation
PublicKey_serialize(p) ==
    IF 2 * p < CurveOrder THEN <<2, p>> ELSE <<3, CurveOrder - p>>

\* PublicKey::from_slice
PublicKey_from_slice(bytes) ==
    IF Len(bytes) # 2 THEN Err("InvalidPublicKey")
    ELSE IF bytes[1] \notin {2, 3} THEN Err("InvalidPublicKey")
    ELSE IF bytes[2] < 1 \/ 2 * bytes[2] >= CurveOrder THEN Err("InvalidPublicKey")
    ELSE Ok(IF bytes[1] = 2 THEN bytes[2] ELSE CurveOrder - bytes[2])

\* sha256::Hash::hash of a serialized point, read as an integer
Sha256(bytes) == (2 * bytes[1] + 5 * bytes[2] + 2) % HashSpace

\* hash160 (RIPEMD160 of SHA256) and the script hash: injective, tagged
Hash160(bytes) == <<160>> \o bytes
WScriptHash(script) == <<256>> \o script

(***************************************************************************)
(* crates/types/src/commitment.rs                                          *)
(***************************************************************************)
COMMITMENTS_COUNT == 2

FirstRankCommitment(sk) == [secret_key |-> sk, public_key |-> PublicKeyOf(sk)]

FirstRankCommitment_add_tweak(c, tweak) == SecretKey_add_tweak(c.secret_key, tweak)

FirstRankCommitment_combine(c, tweak) == PublicKey_combine(c.public_key, tweak)

\* a combination that leaves the commitment out of the key
ThirdRankCommitment_combine_TweakOnly(c, tweak) == Ok(tweak)

ThirdRankCommitment_combine(c, tweak) == PublicKey_combine(c.public_key, tweak)

CommitmentIndexes == 0..(COMMITMENTS_COUNT - 1)

\* a second rank commitment derived from the secret instead of the public key
SecondRankOf_HashesSecret(c) ==
    SecretKey_from_slice(Sha256(PublicKey_serialize(c.secret_key)))

\* the second rank commitment of one first rank commitment (generate, 105-116)
SecondRankOf(c) == SecretKey_from_slice(Sha256(PublicKey_serialize(c.public_key)))

\* Commitments::generate; rnd is what the rng yields: one secret key per commitment
Commitments_generate(rnd) ==
    LET first == [i \in CommitmentIndexes |-> FirstRankCommitment(rnd[i])]
        second == [i \in CommitmentIndexes |-> SecondRankOf(first[i])]
    IN  IF \E i \in CommitmentIndexes : ~second[i].ok
        THEN Err("InvalidSecretKey")
        ELSE Ok([first_rank_commitments |-> first,
                 third_rank_commitments |->
                    [i \in CommitmentIndexes |->
                        [public_key |-> PublicKeyOf(second[i].val)]]])

(***************************************************************************)
(* bitcoin::PublicKey, scripts (crates/transaction-builder/src/scripts.rs) *)
(***************************************************************************)
\* PublicKey::new: a compressed bitcoin key around a curve point
PublicKey_new(p) == [compressed |-> TRUE, inner |-> p]

\* PublicKey::to_bytes: 33 bytes compressed, 65 uncompressed
PublicKey_to_bytes(key) ==
    IF key.compressed
    THEN PublicKey_serialize(key.inner)
    ELSE <<4>> \o PublicKey_serialize(key.inner)

OP_0 == 0
OP_PUSHNUM_BASE == 80
OP_IF == 99
OP_ELSE == 103
OP_ENDIF == 104
OP_DROP == 117
OP_CHECKSIG == 172
OP_CLTV == 177

\* script::Builder::push_slice for data shorter than 76 bytes
push_slice(bytes) == <<Len(bytes)>> \o bytes
\* script::Builder::push_key
push_key(key) == push_slice(PublicKey_to_bytes(key))
\* script::Builder::push_lock_time, through push_int
\* an operand one block later than the lock time asked for
push_lock_time_OneLater(n) ==
    IF n + 1 <= 16 THEN <<OP_PUSHNUM_BASE + n + 1>>
    ELSE push_slice(<<n + 1>>)

push_lock_time(n) ==
    IF n = 0 THEN <<OP_0>>
    ELSE IF n <= 16 THEN <<OP_PUSHNUM_BASE + n>>
    ELSE push_slice(<<n>>)

\* ScriptBuf::new_p2wpkh, ScriptBuf::new_p2wsh: version 0 witness programs
new_p2wpkh(hash) == <<OP_0>> \o push_slice(hash)
new_p2wsh(hash) == <<OP_0>> \o push_slice(hash)

create_p2wpkh_script(key) ==
    IF ~key.compressed
    THEN Err("UncompressedPublicKey")
    ELSE Ok(new_p2wpkh(Hash160(PublicKey_to_bytes(key))))

\* a challenge script with the two keys in each other's branch
create_challenge_p2wsh_script_KeysSwapped(challenger_pubkey, tweaked_acceptor_pubkey, lock_time) ==
    <<OP_IF>> \o push_key(challenger_pubkey) \o <<OP_CHECKSIG>>
    \o <<OP_ELSE>> \o push_lock_time(lock_time) \o <<OP_CLTV, OP_DROP>>
    \o push_key(tweaked_acceptor_pubkey) \o <<OP_CHECKSIG>>
    \o <<OP_ENDIF>>

\* a challenge script whose ELSE branch checks no lock time
create_challenge_p2wsh_script_NoCltv(challenger_pubkey, tweaked_acceptor_pubkey, lock_time) ==
    <<OP_IF>> \o push_key(tweaked_acceptor_pubkey) \o <<OP_CHECKSIG>>
    \o <<OP_ELSE>> \o push_lock_time(lock_time) \o <<OP_DROP>>
    \o push_key(challenger_pubkey) \o <<OP_CHECKSIG>>
    \o <<OP_ENDIF>>

create_challenge_p2wsh_script(challenger_pubkey, tweaked_acceptor_pubkey, lock_time) ==
    <<OP_IF>> \o push_key(tweaked_acceptor_pubkey) \o <<OP_CHECKSIG>>
    \o <<OP_ELSE>> \o push_lock_time(lock_time) \o <<OP_CLTV, OP_DROP>>
    \o push_key(challenger_pubkey) \o <<OP_CHECKSIG>>
    \o <<OP_ENDIF>>

(***************************************************************************)
(* Transactions, signature hashes, signatures                              *)
(***************************************************************************)
\* Sequence::MAX (0xFFFFFFFF), the default of TxIn, and
\* Sequence::ENABLE_LOCKTIME_NO_RBF (0xFFFFFFFE), both cut to 16 bits
Sequence_MAX == 65535
Sequence_ENABLE_LOCKTIME_NO_RBF == 65534
\* EcdsaSighashType::All
SIGHASH_ALL == 1

OutPoint_new(txid, vout) == [txid |-> txid, vout |-> vout]

\* TxIn { previous_output, ..Default::default() }
TxIn_default(previous_output) ==
    [previous_output |-> previous_output, sequence |-> Sequence_MAX, witness |-> <<>>]

TxOut(value, script_pubkey) == [value |-> value, script_pubkey |-> script_pubkey]

\* create_tx: version 1, the given lock time or LockTime::ZERO
create_tx(input, output, lock_time) ==
    [version |-> 1, lock_time |-> unwrap_or(lock_time, 0),
     input |-> input, output |-> output]

\* the transaction without its witnesses: what the txid and the segwit
\* signature hash commit to
StripWitness(tx) ==
    [version |-> tx.version, lock_time |-> tx.lock_time,
     input |-> [i \in 1..Len(tx.input) |->
                  [previous_output |-> tx.input[i].previous_output,
                   sequence |-> tx.input[i].sequence]],
     output |-> tx.output]

\* Transaction::compute_txid
compute_txid(tx) == StripWitness(tx)

\* the BIP143 digest: transaction, input, script code, value, sighash type
SegwitSighash(tx, input_index, script_code, value) ==
    [tx |-> StripWitness(tx), input_index |-> input_index,
     script_code |-> script_code, value |-> value, sighash_type |-> SIGHASH_ALL]

\* the p2pkh script code of a p2wpkh script: DUP HASH160 <hash> EQUALVERIFY CHECKSIG
p2wpkh_script_code(script_pubkey) ==
    <<118, 169>> \o SubSeq(script_pubkey, 2, Len(script_pubkey)) \o <<136, 172>>

\* SighashCache::p2wpkh_signature_hash
p2wpkh_signature_hash(tx, input_index, script_pubkey, value) ==
    IF input_index >= Len(tx.input)
    THEN Err("P2wpkh")
    ELSE Ok(SegwitSighash(tx, input_index, p2wpkh_script_code(script_pubkey), value))

\* SighashCache::p2wsh_signature_hash
p2wsh_signature_hash(tx, input_index, witness_script, value) ==
    IF input_index >= Len(tx.input)
    THEN Err("FailedToSignP2wshInput")
    ELSE Ok(SegwitSighash(tx, input_index, witness_script, value))

\* Secp256k1::sign_ecdsa and verify_ecdsa: only the holder of the secret key
\* makes a signature that verifies for its public key
sign_ecdsa(msg, sk) == [signer |-> PublicKeyOf(sk), msg |-> msg]
verify_ecdsa(msg, sig, pk) == sig.signer = pk /\ sig.msg = msg

\* witness stack elements: a signature with its sighash type byte, or bytes
SigItem(sig) == [t |-> "sig", sig |-> sig, sighash_type |-> SIGHASH_ALL]
BytesItem(bytes) == [t |-> "bytes", bytes |-> bytes]

SetWitness(tx, input_index, witness) ==
    [tx EXCEPT !.input[input_index + 1].witness = witness]

RECURSIVE SumValues(_)
SumValues(outs) ==
    IF outs = <<>> THEN 0 ELSE outs[1].value + SumValues(Tail(outs))

(***************************************************************************)
(* crates/transaction-builder/src/transaction_builder.rs: signing          *)
(***************************************************************************)
\* sign_single_input: witness [signature, public key] for a p2wpkh input
sign_single_input(secret_key, tx, input_index, amount) ==
    LET public_key == PublicKeyOf(secret_key)
        script_code == new_p2wpkh(Hash160(PublicKey_to_bytes(PublicKey_new(public_key))))
        sighash == p2wpkh_signature_hash(tx, input_index, script_code, amount)
    IN  IF ~sighash.ok THEN Err(sighash.err)
        ELSE Ok(SetWitness(tx, input_index,
                  <<SigItem(sign_ecdsa(sighash.val, secret_key)),
                    BytesItem(PublicKey_serialize(public_key))>>))

RECURSIVE sign_inputs_from(_, _, _, _)
sign_inputs_from(secret_key, tx, amounts, input_index) ==
    IF input_index >= Len(amounts) THEN Ok(tx)
    ELSE LET signed == sign_single_input(secret_key, tx, input_index,
                                         amounts[input_index + 1])
         IN  IF ~signed.ok THEN signed
             ELSE sign_inputs_from(secret_key, signed.val, amounts, input_index + 1)

\* sign_transaction: every input with the same secret key
sign_transaction(secret_key, tx, amounts) ==
    IF Len(tx.input) # Len(amounts)
    THEN Err("InputsOutputsLengthMismatch")
    ELSE sign_inputs_from(secret_key, tx, amounts, 0)

(***************************************************************************)
(* PSBT                                                                    *)
(***************************************************************************)
EmptyMap == [p \in {} |-> 0]
MapInsert(m, k, v) == [p \in (DOMAIN m) \cup {k} |-> IF p = k THEN v ELSE m[p]]

\* Psbt::from_unsigned_tx
Psbt_from_unsigned_tx(tx) ==
    [unsigned_tx |-> tx,
     inputs |-> [i \in 1..Len(tx.input) |->
                   [partial_sigs |-> EmptyMap, witness_utxo |-> None,
                    sighash_type |-> None]]]

\* sign_psbt_input: a partial signature, the witness UTXO and the sighash type
sign_psbt_input(self_secret_key, psbt, input_index, amount, secret_key) ==
    IF input_index >= Len(psbt.inputs) THEN Err("InputIndexOutOfBounds")
    ELSE
    LET sk == unwrap_or(secret_key, self_secret_key)
        public_key == PublicKeyOf(sk)
        script_pubkey == create_p2wpkh_script(PublicKey_new(public_key))
        sighash == IF script_pubkey.ok
                   THEN p2wpkh_signature_hash(psbt.unsigned_tx, input_index,
                                              script_pubkey.val, amount)
                   ELSE script_pubkey
        old == psbt.inputs[input_index + 1]
    IN  IF ~script_pubkey.ok THEN Err(script_pubkey.err)
        ELSE IF ~sighash.ok THEN Err(sighash.err)
        ELSE Ok([psbt EXCEPT !.inputs[input_index + 1] =
                  [partial_sigs |->
                      MapInsert(old.partial_sigs, public_key,
                                [signature |-> sign_ecdsa(sighash.val, sk),
                                 sighash_type |-> SIGHASH_ALL]),
                   witness_utxo |-> Some(TxOut(amount, script_pubkey.val)),
                   sighash_type |-> IF old.sighash_type = None
                                    THEN Some(SIGHASH_ALL)
                                    ELSE old.sighash_type]])

\* the partial signature keys of a PSBT input that its witness UTXO pays to
SatisfyingKeys(inp) ==
    {pk \in DOMAIN inp.partial_sigs :
        inp.witness_utxo[1].script_pubkey
            = new_p2wpkh(Hash160(PublicKey_serialize(pk)))}

\* PsbtExt::finalize_mut on one input: the witness UTXO is a p2wpkh output of
\* a key with a partial signature that verifies for the input's digest
InputFinalizable(psbt, i) ==
    LET inp == psbt.inputs[i]
    IN  /\ inp.witness_utxo # None
        /\ \E pk \in SatisfyingKeys(inp) :
              verify_ecdsa(SegwitSighash(psbt.unsigned_tx, i - 1,
                              p2wpkh_script_code(inp.witness_utxo[1].script_pubkey),
                              inp.witness_utxo[1].value),
                           inp.partial_sigs[pk].signature, pk)

FinalWitness(psbt, i) ==
    LET inp == psbt.inputs[i]
        pk == CHOOSE k \in SatisfyingKeys(inp) : TRUE
    IN  <<SigItem(inp.partial_sigs[pk].signature), BytesItem(PublicKey_serialize(pk))>>

\* the TransactionError that `?` makes of a failure of finalize_mut
FinalizeError == "ExtractTransactionFailed"

\* an extraction that does not wait for every input to be finalized
finalize_and_extract_Unchecked(psbt) ==
    IF SumValues([i \in 1..Len(psbt.inputs) |-> psbt.inputs[i].witness_utxo[1]])
              < SumValues(psbt.unsigned_tx.output)
    THEN Err("ExtractTransactionFailed")
    ELSE Ok([psbt.unsigned_tx EXCEPT !.input =
               [i \in 1..Len(psbt.inputs) |->
                  [psbt.unsigned_tx.input[i] EXCEPT !.witness =
                      IF InputFinalizable(psbt, i) THEN FinalWitness(psbt, i) ELSE <<>>]]])

\* PsbtExt::finalize_mut, then Psbt::extract_tx, which refuses a transaction
\* that spends more than its inputs hold
finalize_and_extract(psbt) ==
    IF \E i \in 1..Len(psbt.inputs) : ~InputFinalizable(psbt, i)
    THEN Err(FinalizeError)
    ELSE IF SumValues([i \in 1..Len(psbt.inputs) |-> psbt.inputs[i].witness_utxo[1]])
              < SumValues(psbt.unsigned_tx.output)
    THEN Err("ExtractTransactionFailed")
    ELSE Ok([psbt.unsigned_tx EXCEPT !.input =
               [i \in 1..Len(psbt.inputs) |->
                  [psbt.unsigned_tx.input[i] EXCEPT !.witness = FinalWitness(psbt, i)]]])

(***************************************************************************)
(* crates/transaction-builder/src/transaction_builder.rs: the operations   *)
(* A builder is its secret key; previous_outputs is a sequence of          *)
(* <<outpoint, amount>> pairs.                                             *)
(***************************************************************************)
\* inputs in the reverse of the given order
InputsOf_Reversed(previous_outputs) ==
    [i \in 1..Len(previous_outputs) |->
        TxIn_default(previous_outputs[Len(previous_outputs) + 1 - i][1])]

\* one input per previous output, in the given order
\* (build_deposit_transaction, 81-87; build_challenge_tx, 148-154)
InputsOf(previous_outputs) ==
    [i \in 1..Len(previous_outputs) |-> TxIn_default(previous_outputs[i][1])]

AmountsOf(previous_outputs) ==
    [i \in 1..Len(previous_outputs) |-> previous_outputs[i][2]]

build_deposit_transaction(secret_key, first_rank_commitment, previous_outputs, deposit_amount, change_amount, change_pubkey) ==
    LET public_key == PublicKey_new(PublicKeyOf(secret_key))
        challenge_pubkey == FirstRankCommitment_combine(first_rank_commitment,
                                                        public_key.inner)
        deposit_script == IF challenge_pubkey.ok
                          THEN create_p2wpkh_script(PublicKey_new(challenge_pubkey.val))
                          ELSE challenge_pubkey
        change_script == create_p2wpkh_script(unwrap_or(change_pubkey, public_key))
    IN  IF ~challenge_pubkey.ok THEN Err(challenge_pubkey.err)
        ELSE IF ~deposit_script.ok THEN Err(deposit_script.err)
        ELSE IF change_amount # None /\ ~change_script.ok THEN Err(change_script.err)
        ELSE
        LET outputs == <<TxOut(deposit_amount, deposit_script.val)>>
                       \o (IF change_amount # None
                           THEN <<TxOut(change_amount[1], change_script.val)>>
                           ELSE <<>>)
            deposit_tx == create_tx(InputsOf(previous_outputs), outputs, None)
        IN  sign_transaction(secret_key, deposit_tx, AmountsOf(previous_outputs))

\* the challenge inputs with the deposit input last instead of first
ChallengeInputs_DepositLast(deposit_outpoint, previous_outputs) ==
    InputsOf(previous_outputs) \o <<TxIn_default(deposit_outpoint)>>

\* the inputs of the challenge transaction (build_challenge_tx, 143-156)
ChallengeInputs(deposit_outpoint, previous_outputs) ==
    <<TxIn_default(deposit_outpoint)>> \o InputsOf(previous_outputs)

\* a signing loop that does not skip the deposit input
AcceptorInputIndex_NoSkip(input_index) == input_index

\* the PSBT input the Acceptor signs for its input_index-th previous output
\* (build_challenge_tx, 161-164)
AcceptorInputIndex(input_index) == input_index + 1

RECURSIVE sign_acceptor_inputs(_, _, _, _)
sign_acceptor_inputs(secret_key, psbt, previous_outputs, input_index) ==
    IF input_index >= Len(previous_outputs) THEN Ok(psbt)
    ELSE LET signed == sign_psbt_input(secret_key, psbt,
                                       AcceptorInputIndex(input_index),
                                       previous_outputs[input_index + 1][2], None)
         IN  IF ~signed.ok THEN signed
             ELSE sign_acceptor_inputs(secret_key, signed.val, previous_outputs,
                                       input_index + 1)

\* a challenge output that holds one party's stake only
\* u64::MAX, the width cut to 4 bits
U64_MAX == 15

ChallengeValue_OneStake(amount_sat) == amount_sat

\* the value of the challenge output: both stakes (build_challenge_tx, 131)
ChallengeValue(amount_sat) == amount_sat * 2

\* build_challenge_tx: Ok(<<challenge_script, psbt>>)
build_challenge_tx(secret_key, challenger_pubkey, deposit_outpoint, third_rank_commitment, lock_time, amount, previous_outputs, change_amount, change_pubkey) ==
    LET acceptor_public_key == PublicKeyOf(secret_key)
        tweaked_acceptor_pubkey ==
            ThirdRankCommitment_combine(third_rank_commitment, acceptor_public_key)
        change_script ==
            create_p2wpkh_script(unwrap_or(change_pubkey,
                                           PublicKey_new(acceptor_public_key)))
    IN  IF ~tweaked_acceptor_pubkey.ok THEN Err(tweaked_acceptor_pubkey.err)
        ELSE IF ChallengeValue(amount) > U64_MAX
        THEN Err("panic: Amount multiplication error")
        ELSE IF change_amount # None /\ ~change_script.ok THEN Err(change_script.err)
        ELSE
        LET challenge_script ==
                create_challenge_p2wsh_script(challenger_pubkey,
                    PublicKey_new(tweaked_acceptor_pubkey.val), lock_time)
            outputs == <<TxOut(ChallengeValue(amount),
                               new_p2wsh(WScriptHash(challenge_script)))>>
                       \o (IF change_amount # None
                           THEN <<TxOut(change_amount[1], change_script.val)>>
                           ELSE <<>>)
            challenge_tx == create_tx(ChallengeInputs(deposit_outpoint, previous_outputs),
                                      outputs, None)
            signed == sign_acceptor_inputs(secret_key, Psbt_from_unsigned_tx(challenge_tx),
                                           previous_outputs, 0)
        IN  IF ~signed.ok THEN Err(signed.err)
            ELSE Ok(<<challenge_script, signed.val>>)

\* a deposit signing key that leaves the builder's own secret key out
DepositSigningKey_NoTweak(secret_key, first_rank_commitment) ==
    Ok(first_rank_commitment.secret_key)

\* the key that signs the deposit input (complete_challenge_tx, 179)
DepositSigningKey(secret_key, first_rank_commitment) ==
    FirstRankCommitment_add_tweak(first_rank_commitment, secret_key)

complete_challenge_tx(secret_key, psbt, deposit_amount, deposit_input_index, first_rank_commitment) ==
    LET deposit_signing_key == DepositSigningKey(secret_key, first_rank_commitment)
        signed == IF deposit_signing_key.ok
                  THEN sign_psbt_input(secret_key, psbt, deposit_input_index,
                                       deposit_amount, Some(deposit_signing_key.val))
                  ELSE deposit_signing_key
    IN  IF ~deposit_signing_key.ok THEN Err(deposit_signing_key.err)
        ELSE IF ~signed.ok THEN Err(signed.err)
        ELSE finalize_and_extract(signed.val)

\* a sweep output that pays the whole challenge output, leaving no fee
SweepOutput_NoFee(challenge_transaction, fee, script_pubkey) ==
    TxOut(challenge_transaction.output[1].value, script_pubkey)

\* the one output of a sweep (sweep_challenge_output_acceptor, 209-214;
\* sweep_challenge_output_challenger, 303-308)
SweepOutput(challenge_transaction, fee, script_pubkey) ==
    TxOut(challenge_transaction.output[1].value - fee, script_pubkey)

\* an acceptor signature whose witness selects the OP_ELSE branch
sign_p2wsh_input_acceptor_ElseBranch(tx, input_index, amount, witness_script, tweaked_secret_key) ==
    LET sighash == p2wsh_signature_hash(tx, input_index, witness_script, amount)
    IN  IF ~sighash.ok THEN Err(sighash.err)
        ELSE Ok(SetWitness(tx, input_index,
                  <<SigItem(sign_ecdsa(sighash.val, tweaked_secret_key)),
                    BytesItem(<<>>), BytesItem(witness_script)>>))

\* sign_p2wsh_input_acceptor: witness [signature, [1], witness script]
sign_p2wsh_input_acceptor(tx, input_index, amount, witness_script, tweaked_secret_key) ==
    LET sighash == p2wsh_signature_hash(tx, input_index, witness_script, amount)
    IN  IF ~sighash.ok THEN Err(sighash.err)
        ELSE Ok(SetWitness(tx, input_index,
                  <<SigItem(sign_ecdsa(sighash.val, tweaked_secret_key)),
                    BytesItem(<<1>>), BytesItem(witness_script)>>))

\* sign_p2wsh_input_challenger: witness [signature, [], witness script]
sign_p2wsh_input_challenger(secret_key, tx, input_index, amount, witness_script) ==
    LET sighash == p2wsh_signature_hash(tx, input_index, witness_script, amount)
    IN  IF ~sighash.ok THEN Err(sighash.err)
        ELSE Ok(SetWitness(tx, input_index,
                  <<SigItem(sign_ecdsa(sighash.val, secret_key)),
                    BytesItem(<<>>), BytesItem(witness_script)>>))

\* a recovery that adds the challenger key instead of subtracting it
RecoverSecondRank_NoNegate(witness_pubkey, challenger_pubkey) ==
    LET second_rank_commitment == PublicKey_combine(witness_pubkey, challenger_pubkey.inner)
    IN  IF ~second_rank_commitment.ok THEN Err(second_rank_commitment.err)
        ELSE SecretKey_from_slice(Sha256(PublicKey_serialize(second_rank_commitment.val)))

\* the second rank secret recovered from the witness public key
\* (sweep_challenge_output_acceptor, 223-228)
RecoverSecondRank(witness_pubkey, challenger_pubkey) ==
    LET negated_challenger_pubkey == PublicKey_negate(challenger_pubkey.inner)
        second_rank_commitment == PublicKey_combine(witness_pubkey, negated_challenger_pubkey)
    IN  IF ~second_rank_commitment.ok THEN Err(second_rank_commitment.err)
        ELSE SecretKey_from_slice(Sha256(PublicKey_serialize(second_rank_commitment.val)))

\* sweep_challenge_output_acceptor: Ok of the transaction, with the two secrets
\* it derived on the way; a panic is an Err that names it
sweep_challenge_output_acceptor(secret_key, challenge_transaction, challenger_pubkey, witness_script, recipient_pubkey, fee) ==
    LET inputs == <<TxIn_default(OutPoint_new(compute_txid(challenge_transaction), 0))>>
        recipient_script ==
            create_p2wpkh_script(unwrap_or(recipient_pubkey,
                                           PublicKey_new(PublicKeyOf(secret_key))))
        stack == challenge_transaction.input[1].witness
    IN  IF challenge_transaction.output[1].value < fee THEN Err("panic: Amount subtraction")
        ELSE IF ~recipient_script.ok THEN Err(recipient_script.err)
        ELSE IF Len(stack) < 2 THEN Err("panic: witness index out of bounds")
        ELSE
        LET witness_pubkey == IF stack[2].t = "bytes"
                              THEN PublicKey_from_slice(stack[2].bytes)
                              ELSE Err("InvalidPublicKey")
            second_rank_commitment_sk ==
                IF witness_pubkey.ok
                THEN RecoverSecondRank(witness_pubkey.val, challenger_pubkey)
                ELSE witness_pubkey
            tweaked_acceptor_sk ==
                IF second_rank_commitment_sk.ok
                THEN SecretKey_add_tweak(secret_key, second_rank_commitment_sk.val)
                ELSE second_rank_commitment_sk
            outputs == <<SweepOutput(challenge_transaction, fee, recipient_script.val)>>
            tx == create_tx(inputs, outputs, None)
            signed == IF tweaked_acceptor_sk.ok
                      THEN sign_p2wsh_input_acceptor(tx, 0,
                               challenge_transaction.output[1].value,
                               witness_script, tweaked_acceptor_sk.val)
                      ELSE tweaked_acceptor_sk
        IN  IF ~witness_pubkey.ok THEN Err(witness_pubkey.err)
            ELSE IF ~second_rank_commitment_sk.ok THEN Err(second_rank_commitment_sk.err)
            ELSE IF ~tweaked_acceptor_sk.ok THEN Err(tweaked_acceptor_sk.err)
            ELSE IF ~signed.ok THEN Err(signed.err)
            ELSE Ok([tx |-> signed.val,
                     second_rank_commitment_sk |-> second_rank_commitment_sk.val,
                     tweaked_acceptor_sk |-> tweaked_acceptor_sk.val])

\* a challenger sweep input left at the default, final sequence
ChallengerSweepInput_FinalSequence(previous_output) == TxIn_default(previous_output)

\* the input of the challenger sweep (sweep_challenge_output_challenger, 295-299)
ChallengerSweepInput(previous_output) ==
    [TxIn_default(previous_output) EXCEPT !.sequence = Sequence_ENABLE_LOCKTIME_NO_RBF]

sweep_challenge_output_challenger(secret_key, challenge_transaction, witness_script, lock_time, recipient_pubkey, fee) ==
    LET challenger_pubkey == PublicKeyOf(secret_key)
        inputs == <<ChallengerSweepInput(
                      OutPoint_new(compute_txid(challenge_transaction), 0))>>
        recipient_script ==
            create_p2wpkh_script(unwrap_or(recipient_pubkey,
                                           PublicKey_new(challenger_pubkey)))
    IN  IF challenge_transaction.output[1].value < fee THEN Err("panic: Amount subtraction")
        ELSE IF ~recipient_script.ok THEN Err(recipient_script.err)
        ELSE
        LET outputs == <<SweepOutput(challenge_transaction, fee, recipient_script.val)>>
            tx == create_tx(inputs, outputs, Some(lock_time))
        IN  sign_p2wsh_input_challenger(secret_key, tx, 0,
                challenge_transaction.output[1].value, witness_script)

(***************************************************************************)
(* The chain: what the network accepts.  Script semantics as section 4.2   *)
(* of the specification takes them from the transaction format: witness    *)
(* programs of version 0, OP_IF on the truth of the top element (the empty *)
(* string is false), OP_CHECKLOCKTIMEVERIFY against the spending           *)
(* transaction's lock time and the input's sequence.                       *)
(***************************************************************************)
\* the truth of a stack element: some byte is not zero
CastToBool(item) ==
    IF item.t = "bytes" THEN \E k \in 1..Len(item.bytes) : item.bytes[k] # 0 ELSE TRUE

\* a stack element read as a script number (at most one byte here)
ScriptNum(item) ==
    IF item.t # "bytes" \/ Len(item.bytes) > 1 THEN -1
    ELSE IF item.bytes = <<>> THEN 0 ELSE item.bytes[1]

BoolItem(b) == BytesItem(IF b THEN <<1>> ELSE <<>>)

\* OP_CHECKSIG on <sig> <pubkey> for the input being checked
CheckSig(sig_item, key_item, ctx) ==
    /\ sig_item.t = "sig"
    /\ key_item.t = "bytes"
    /\ PublicKey_from_slice(key_item.bytes).ok
    /\ verify_ecdsa(SegwitSighash(ctx.tx, ctx.input_index, ctx.script_code, ctx.value),
                    sig_item.sig, PublicKey_from_slice(key_item.bytes).val)

\* OP_CHECKLOCKTIMEVERIFY (BIP65) on the top element n: fails when n is
\* negative, exceeds the transaction's lock time, or the input is final
CheckLockTime(item, ctx) ==
    /\ ScriptNum(item) >= 0
    /\ ScriptNum(item) <= ctx.tx.lock_time
    /\ ctx.tx.input[ctx.input_index + 1].sequence # Sequence_MAX

Executing(conds) == \A k \in 1..Len(conds) : conds[k]

Pop(stack) == SubSeq(stack, 1, Len(stack) - 1)
Top(stack) == stack[Len(stack)]

ExecFail == [ok |-> FALSE, stack |-> <<>>]

\* the instruction at pc: where the script goes on from, the data stack and
\* the stack of open OP_IF conditions after it, or a failure
ExecOp(script, pc, stack, conds, ctx) ==
    LET op == script[pc]
        exec == Executing(conds)
        Goes(next_pc, next_stack, next_conds) ==
            [ok |-> TRUE, pc |-> next_pc, stack |-> next_stack, conds |-> next_conds]
        Fails == [ok |-> FALSE, pc |-> pc, stack |-> <<>>, conds |-> <<>>]
    IN  CASE op = OP_0 ->
               Goes(pc + 1, IF exec THEN Append(stack, BytesItem(<<>>)) ELSE stack, conds)
          [] op >= 1 /\ op <= 75 ->
               IF pc + op > Len(script) THEN Fails
               ELSE Goes(pc + 1 + op,
                         IF exec
                         THEN Append(stack, BytesItem(SubSeq(script, pc + 1, pc + op)))
                         ELSE stack,
                         conds)
          [] op > OP_PUSHNUM_BASE /\ op <= OP_PUSHNUM_BASE + 16 ->
               Goes(pc + 1,
                    IF exec THEN Append(stack, BytesItem(<<op - OP_PUSHNUM_BASE>>))
                    ELSE stack,
                    conds)
          [] op = OP_IF ->
               IF ~exec THEN Goes(pc + 1, stack, Append(conds, FALSE))
               ELSE IF stack = <<>> THEN Fails
               ELSE Goes(pc + 1, Pop(stack), Append(conds, CastToBool(Top(stack))))
          [] op = OP_ELSE ->
               IF conds = <<>> THEN Fails
               ELSE Goes(pc + 1, stack, Append(Pop(conds), ~Top(conds)))
          [] op = OP_ENDIF ->
               IF conds = <<>> THEN Fails
               ELSE Goes(pc + 1, stack, Pop(conds))
          [] op = OP_DROP ->
               IF ~exec THEN Goes(pc + 1, stack, conds)
               ELSE IF stack = <<>> THEN Fails
               ELSE Goes(pc + 1, Pop(stack), conds)
          [] op = OP_CLTV ->
               IF ~exec THEN Goes(pc + 1, stack, conds)
               ELSE IF stack = <<>> THEN Fails
               ELSE IF ~CheckLockTime(Top(stack), ctx) THEN Fails
               ELSE Goes(pc + 1, stack, conds)
          [] op = OP_CHECKSIG ->
               IF ~exec THEN Goes(pc + 1, stack, conds)
               ELSE IF Len(stack) < 2 THEN Fails
               ELSE Goes(pc + 1,
                         Append(Pop(Pop(stack)),
                                BoolItem(CheckSig(Top(Pop(stack)), Top(stack), ctx))),
                         conds)
          [] OTHER -> Fails

\* the script from position pc on, one instruction after the other; each
\* instruction's outcome is bound to a value before the script goes on
RECURSIVE ExecScript(_, _, _, _, _)
ExecScript(script, pc, stack, conds, ctx) ==
    IF pc > Len(script)
    THEN IF conds = <<>> THEN [ok |-> TRUE, stack |-> stack] ELSE ExecFail
    ELSE CHOOSE run \in {IF s.ok THEN ExecScript(script, s.pc, s.stack, s.conds, ctx)
                                 ELSE ExecFail :
                             s \in {ExecOp(script, pc, stack, conds, ctx)}} : TRUE

\* a version 0 witness program: <<OP_0, length>> then the hash
IsP2wpkh(script_pubkey) ==
    Len(script_pubkey) > 2 /\ script_pubkey[1] = OP_0 /\ script_pubkey[3] = 160
IsP2wsh(script_pubkey) ==
    Len(script_pubkey) > 2 /\ script_pubkey[1] = OP_0 /\ script_pubkey[3] = 256

\* the witness of input input_index of tx satisfies the output it spends
VerifyInput(tx, input_index, prevout) ==
    LET witness == tx.input[input_index + 1].witness
    IN  IF IsP2wpkh(prevout.script_pubkey)
        THEN /\ Len(witness) = 2
             /\ witness[2].t = "bytes"
             /\ prevout.script_pubkey = new_p2wpkh(Hash160(witness[2].bytes))
             /\ CheckSig(witness[1], witness[2],
                         [tx |-> tx, input_index |-> input_index,
                          script_code |-> p2wpkh_script_code(prevout.script_pubkey),
                          value |-> prevout.value])
        ELSE IF IsP2wsh(prevout.script_pubkey)
        THEN /\ Len(witness) >= 1
             /\ Top(witness).t = "bytes"
             /\ prevout.script_pubkey = new_p2wsh(WScriptHash(Top(witness).bytes))
             /\ LET run == ExecScript(Top(witness).bytes, 1, Pop(witness), <<>>,
                                      [tx |-> tx, input_index |-> input_index,
                                       script_code |-> Top(witness).bytes,
                                       value |-> prevout.value])
                IN  run.ok /\ Len(run.stack) = 1 /\ CastToBool(run.stack[1])
        ELSE FALSE

\* the outputs a chain holds, and the ones already spent
HasOutput(ledger, outpoint) ==
    \E k \in 1..Len(ledger) :
        /\ compute_txid(ledger[k]) = outpoint.txid
        /\ outpoint.vout < Len(ledger[k].output)

OutputAt(ledger, outpoint) ==
    LET k == CHOOSE k \in 1..Len(ledger) : compute_txid(ledger[k]) = outpoint.txid
    IN  ledger[k].output[outpoint.vout + 1]

IsSpent(ledger, outpoint) ==
    \E k \in 1..Len(ledger) : \E i \in 1..Len(ledger[k].input) :
        ledger[k].input[i].previous_output = outpoint

\* a transaction is final for the block after the tip
IsFinalTx(tx, tip) ==
    \/ tx.lock_time = 0
    \/ tx.lock_time < tip + 1
    \/ \A i \in 1..Len(tx.input) : tx.input[i].sequence = Sequence_MAX

\* the network accepts tx on top of ledger at height tip
Accepts(ledger, tip, tx) ==
    /\ Len(tx.input) >= 1
    /\ \A i \in 1..Len(tx.input) :
          /\ HasOutput(ledger, tx.input[i].previous_output)
          /\ ~IsSpent(ledger, tx.input[i].previous_output)
          /\ \A j \in 1..Len(tx.input) :
                i # j => tx.input[i].previous_output # tx.input[j].previous_output
    /\ IsFinalTx(tx, tip)
    /\ SumValues([i \in 1..Len(tx.input) |->
                    OutputAt(ledger, tx.input[i].previous_output)])
          >= SumValues(tx.output)
    /\ \A i \in 1..Len(tx.input) :
          VerifyInput(tx, i - 1, OutputAt(ledger, tx.input[i].previous_output))

(***************************************************************************)
(* One protocol run: the Challenger's and the Acceptor's builders, the     *)
(* results of their calls, and the chain.                                  *)
(***************************************************************************)
VARIABLES
    challenger_sk,    \* the secret key of the Challenger's TransactionBuilder
    acceptor_sk,      \* the secret key of the Acceptor's TransactionBuilder
    commitments,      \* the result of Commitments::generate
    selected,         \* the first rank commitment the Challenger picked
    amount,           \* the challenge amount
    deposit,          \* the result of build_deposit_transaction
    challenge_args,   \* the arguments of build_challenge_tx
    challenge,        \* the result of build_challenge_tx
    completed_with,   \* the commitment given to complete_challenge_tx
    completed,        \* the result of complete_challenge_tx
    sweep,            \* the last sweep call: its arguments and result
    ledger,           \* the transactions the network has accepted, in order
    height,           \* the height of the chain tip
    files,            \* the artifact files the command line actions wrote
    cmd,              \* the last command line action: its arguments and outcome
    call,             \* the last direct call of a library function: arguments and result
    legacy            \* the TransactionBuilder of the op-rand crate and what was stored in it

vars == <<challenger_sk, acceptor_sk, commitments, selected, amount, deposit,
          challenge_args, challenge, completed_with, completed, sweep, ledger, height,
          files, cmd, call, legacy>>

\* what the command line actions keep, and what the builders' callers keep
cli_vars == <<files, cmd>>
run_vars == <<commitments, selected, amount, deposit, challenge_args, challenge,
              completed_with, completed, sweep>>

\* the secret keys the two wallets are configured with, what the rng may
\* yield, and the amounts and fees a caller may pass
ChallengerKeys == {2, 6}
AcceptorKeys == {5}
RngKeys == {1, 2, 3, 5}
Amounts == {1}
Fees == {1}
\* how many of its UTXOs the Challenger funds the deposit with
DepositInputCounts == {1}

\* every wallet UTXO holds enough for one challenge
UtxoValue == 3

\* the transaction that funded wallet UTXO k of a key
FundingTx(pk, k) ==
    [version |-> 1, lock_time |-> k, input |-> <<>>,
     output |-> <<TxOut(UtxoValue, new_p2wpkh(Hash160(PublicKey_serialize(pk))))>>]

ChallengerFunding == [k \in 1..MaxUtxos |-> FundingTx(PublicKeyOf(challenger_sk), k)]
AcceptorFunding ==
    [k \in 1..MaxUtxos |-> FundingTx(PublicKeyOf(acceptor_sk), MaxUtxos + k)]

\* the first n UTXOs of a wallet, as previous_outputs
Prevouts(funding, n) ==
    [k \in 1..n |-> <<OutPoint_new(compute_txid(funding[k]), 0), funding[k].output[1].value>>]

NoArgs == [third_rank_index |-> 0, lock_time |-> 0, previous_outputs |-> <<>>]
NoSweep == [kind |-> "none", builder |-> 0, lock_time |-> 0, fee |-> 0,
            accepted |-> FALSE, res |-> NotCalled]
NoFiles == [public |-> None, private |-> None, acceptor |-> None]
NoCreateArgs == [amount |-> 0, commitments_count |-> 0, locktime |-> 0]
NoCmd == [name |-> "none", args |-> NoCreateArgs, selected_commitment |-> 0,
          given |-> NoFiles, log |-> <<>>, result |-> NotCalled]
NoCall == [name |-> "none", args |-> <<>>, result |-> NotCalled]
\* no TransactionBuilder of the op-rand crate constructed yet
NoBuilder == [builder |-> None, called |-> {}, stored |-> None]

Init ==
    /\ challenger_sk \in ChallengerKeys
    /\ acceptor_sk \in AcceptorKeys
    /\ commitments = NotCalled
    /\ selected = None
    /\ amount = 0
    /\ deposit = NotCalled
    /\ challenge_args = NoArgs
    /\ challenge = NotCalled
    /\ completed_with = None
    /\ completed = NotCalled
    /\ sweep = NoSweep
    /\ ledger = [k \in 1..(2 * MaxUtxos) |->
                   IF k <= MaxUtxos
                   THEN FundingTx(PublicKeyOf(challenger_sk), k)
                   ELSE FundingTx(PublicKeyOf(acceptor_sk), k)]
    /\ height = 0
    /\ files = NoFiles
    /\ cmd = NoCmd
    /\ call = NoCall
    /\ legacy = NoBuilder

\* Challenger: Commitments::generate
Generate ==
    /\ commitments = NotCalled
    /\ \E rnd \in [CommitmentIndexes -> RngKeys] :
          commitments' = Commitments_generate(rnd)
    /\ UNCHANGED <<challenger_sk, acceptor_sk, selected, amount, deposit, challenge_args,
                   challenge, completed_with, completed, sweep, ledger, height, cli_vars, call, legacy>>

\* Challenger: Commitments::pick_random_first_rank_commitment
PickFirstRank ==
    /\ commitments.ok
    /\ selected = None
    /\ \E i \in CommitmentIndexes :
          selected' = Some(commitments.val.first_rank_commitments[i])
    /\ UNCHANGED <<challenger_sk, acceptor_sk, commitments, amount, deposit,
                   challenge_args, challenge, completed_with, completed, sweep,
                   ledger, height, cli_vars, call, legacy>>

\* Challenger: build_deposit_transaction over its first n UTXOs
BuildDeposit ==
    /\ selected # None
    /\ deposit = NotCalled
    /\ \E n \in DepositInputCounts, a \in Amounts :
          /\ amount' = a
          /\ deposit' = build_deposit_transaction(challenger_sk, selected[1],
                            Prevouts(ChallengerFunding, n), a, None, None)
    /\ UNCHANGED <<challenger_sk, acceptor_sk, commitments, selected, challenge_args,
                   challenge, completed_with, completed, sweep, ledger, height, cli_vars, call, legacy>>

\* Acceptor: build_challenge_tx with third rank commitment j over its first n UTXOs
BuildChallenge ==
    /\ deposit.ok
    /\ challenge = NotCalled
    /\ \E j \in CommitmentIndexes, lt \in 0..MaxLockTime, n \in 0..MaxUtxos :
          /\ challenge_args' = [third_rank_index |-> j, lock_time |-> lt,
                                previous_outputs |-> Prevouts(AcceptorFunding, n)]
          /\ challenge' = build_challenge_tx(acceptor_sk,
                              PublicKey_new(PublicKeyOf(challenger_sk)),
                              OutPoint_new(compute_txid(deposit.val), 0),
                              commitments.val.third_rank_commitments[j],
                              lt, amount, Prevouts(AcceptorFunding, n), None, None)
    /\ UNCHANGED <<challenger_sk, acceptor_sk, commitments, selected, amount, deposit,
                   completed_with, completed, sweep, ledger, height, cli_vars, call, legacy>>

\* Challenger: complete_challenge_tx with one of its first rank commitments
CompleteChallenge ==
    /\ challenge.ok
    /\ completed = NotCalled
    /\ \E i \in CommitmentIndexes :
          /\ completed_with' = Some(commitments.val.first_rank_commitments[i])
          /\ completed' = complete_challenge_tx(challenger_sk, challenge.val[2], amount, 0,
                              commitments.val.first_rank_commitments[i])
    /\ UNCHANGED <<challenger_sk, acceptor_sk, commitments, selected, amount, deposit,
                   challenge_args, challenge, sweep, ledger, height, cli_vars, call, legacy>>

\* the network is sent the deposit transaction
BroadcastDeposit ==
    /\ deposit.ok
    /\ completed # NotCalled
    /\ Accepts(ledger, height, deposit.val)
    /\ ledger' = Append(ledger, deposit.val)
    /\ UNCHANGED <<challenger_sk, acceptor_sk, commitments, selected, amount, deposit,
                   challenge_args, challenge, completed_with, completed, sweep, height, cli_vars, call, legacy>>

\* the network is sent the completed challenge transaction
BroadcastChallenge ==
    /\ completed.ok
    /\ Accepts(ledger, height, completed.val)
    /\ ledger' = Append(ledger, completed.val)
    /\ UNCHANGED <<challenger_sk, acceptor_sk, commitments, selected, amount, deposit,
                   challenge_args, challenge, completed_with, completed, sweep, height, cli_vars, call, legacy>>

\* the challenge transaction is on the chain
ChallengeConfirmed ==
    completed.ok /\ \E k \in 1..Len(ledger) : compute_txid(ledger[k]) = compute_txid(completed.val)

\* a sweep call, and the network's answer when it returned a transaction
Swept(kind, builder, lock_time, fee, res, tx) ==
    LET accepted == res.ok /\ Accepts(ledger, height, tx)
    IN  /\ sweep' = [kind |-> kind, builder |-> builder, lock_time |-> lock_time,
                     fee |-> fee, accepted |-> accepted, res |-> res]
        /\ ledger' = IF accepted THEN Append(ledger, tx) ELSE ledger

\* a builder's sweep_challenge_output_acceptor, then broadcast
SweepAcceptorWith(builder, fee) ==
    /\ \E res \in {sweep_challenge_output_acceptor(builder, completed.val,
                         PublicKey_new(PublicKeyOf(challenger_sk)),
                         challenge.val[1], None, fee)} :
          Swept("acceptor", builder, 0, fee, res, IF res.ok THEN res.val.tx ELSE <<>>)
    /\ UNCHANGED <<challenger_sk, acceptor_sk, commitments, selected, amount, deposit,
                   challenge_args, challenge, completed_with, completed, height, cli_vars, call, legacy>>

\* either party's builder, once the challenge output exists:
\* sweep_challenge_output_acceptor, then broadcast
SweepAcceptor ==
    /\ ChallengeConfirmed
    /\ \E builder \in {challenger_sk, acceptor_sk}, fee \in Fees :
          SweepAcceptorWith(builder, fee)

\* the Acceptor's try_spend: its own builder
TrySpendAcceptor ==
    /\ ChallengeConfirmed
    /\ \E fee \in Fees : SweepAcceptorWith(acceptor_sk, fee)

\* a builder's sweep_challenge_output_challenger with a lock time, then broadcast
SweepChallengerWith(builder, lt, fee) ==
    /\ \E res \in {sweep_challenge_output_challenger(builder, completed.val,
                         challenge.val[1], lt, None, fee)} :
          Swept("challenger", builder, lt, fee, res, IF res.ok THEN res.val ELSE <<>>)
    /\ UNCHANGED <<challenger_sk, acceptor_sk, commitments, selected, amount, deposit,
                   challenge_args, challenge, completed_with, completed, height, cli_vars, call, legacy>>

\* either party's builder, once the challenge output exists:
\* sweep_challenge_output_challenger, then broadcast
SweepChallenger ==
    /\ ChallengeConfirmed
    /\ \E builder \in {challenger_sk, acceptor_sk}, lt \in 0..MaxLockTime, fee \in Fees :
          SweepChallengerWith(builder, lt, fee)

\* the Challenger's try_spend: its own builder and the lock time of the
\* public challenge data, which is the one the challenge script was built with
TrySpendChallenger ==
    /\ ChallengeConfirmed
    /\ \E fee \in Fees : SweepChallengerWith(challenger_sk, challenge_args.lock_time, fee)

\* a block is mined; heights count from the one the challenge confirms at
Tick ==
    /\ ChallengeConfirmed
    /\ height < MaxLockTime
    /\ height' = height + 1
    /\ UNCHANGED <<challenger_sk, acceptor_sk, commitments, selected, amount, deposit,
                   challenge_args, challenge, completed_with, completed, sweep, ledger, cli_vars, call, legacy>>

Next ==
    \/ Generate
    \/ PickFirstRank
    \/ BuildDeposit
    \/ BuildChallenge
    \/ CompleteChallenge
    \/ BroadcastDeposit
    \/ BroadcastChallenge
    \/ SweepAcceptor
    \/ SweepChallenger
    \/ Tick

Spec == Init /\ [][Next]_vars

\* a run in which each party spends with its own try_spend
TrySpendNext ==
    \/ Generate
    \/ PickFirstRank
    \/ BuildDeposit
    \/ BuildChallenge
    \/ CompleteChallenge
    \/ BroadcastDeposit
    \/ BroadcastChallenge
    \/ TrySpendAcceptor
    \/ TrySpendChallenger
    \/ Tick

\* the Challenger keeps trying to spend and blocks keep being mined
FairSpec ==
    Init /\ [][TrySpendNext]_vars /\ WF_vars(Tick) /\ WF_vars(TrySpendChallenger)

(***************************************************************************)
(* What the claims speak of, read off the state                            *)
(***************************************************************************)
FirstRank == commitments.val.first_rank_commitments
ThirdRank == commitments.val.third_rank_commitments
ChallengerPubkey == PublicKeyOf(challenger_sk)
AcceptorPubkey == PublicKeyOf(acceptor_sk)

\* the output build_deposit_transaction made for the challenge
DepositOutput == deposit.val.output[1]

\* the public key in the witness of input 0 of the completed challenge transaction
CompletedWitnessPubkey ==
    PublicKey_from_slice(completed.val.input[1].witness[2].bytes)

\* the key the challenge script pushes first, for its IF branch
ScriptIfKey ==
    PublicKey_from_slice(SubSeq(challenge.val[1], 3, 2 + challenge.val[1][2]))

\* the first rank commitment behind the third rank commitment the Acceptor chose
\* is the one the Challenger selected
AcceptorChoseSelected ==
    FirstRank[challenge_args.third_rank_index].public_key = selected[1].public_key

SweepByAcceptor ==
    sweep.kind = "acceptor" /\ sweep.builder = acceptor_sk /\ sweep.res.ok

(***************************************************************************)
(* Commitments and keys                                                    *)
(***************************************************************************)
\* C1: in every generated Commitments value, third_rank[i] is the public key
\* of the scalar SHA256(serialize(first_rank[i].public_key)), for every i.
C1_ThirdRankIsPubkeyOfHash ==
    commitments.ok =>
        \A i \in CommitmentIndexes :
            ThirdRank[i].public_key
                = PublicKeyOf(Sha256(PublicKey_serialize(FirstRank[i].public_key)))

\* generate returned two different commitments
C1_Witness ==
    /\ commitments.ok
    /\ FirstRank[0].public_key # FirstRank[1].public_key
    /\ ThirdRank[0].public_key # ThirdRank[1].public_key

\* C2: the secret key complete_challenge_tx signs the deposit input with
\* (a + c by scalar addition) has as its public key the combined key
\* (pubkeyOf(c) + A by point addition) the deposit output is locked to: the
\* two derivations fail together, agree when they succeed, and the key in the
\* witness of the completed deposit input hashes to the deposit output's script.
C2_SigningKeyOpensDepositLock ==
    selected # None =>
        LET signing == DepositSigningKey(challenger_sk, selected[1])
            locked == PublicKey_combine(ChallengerPubkey, selected[1].public_key)
        IN  /\ signing.ok <=> locked.ok
            /\ signing.ok => PublicKeyOf(signing.val) = locked.val
            /\ deposit # NotCalled => (deposit.ok <=> locked.ok)
            /\ deposit.ok =>
                  DepositOutput.script_pubkey
                      = new_p2wpkh(Hash160(PublicKey_serialize(PublicKeyOf(signing.val))))
            /\ (completed.ok /\ completed_with = selected) =>
                  new_p2wpkh(Hash160(completed.val.input[1].witness[2].bytes))
                      = DepositOutput.script_pubkey

\* the deposit output was spent by the challenge transaction completed with the
\* selected commitment
C2_Witness ==
    /\ completed.ok
    /\ completed_with = selected
    /\ \E k \in 1..Len(ledger) : ledger[k] = completed.val

\* C3: the key the Acceptor's sweep signs with (b + SHA256 of the recovered
\* first rank public key) is the secret of the tweaked acceptor key in the
\* challenge script (B + third_rank[j]) exactly when j is the index of the
\* commitment the Challenger selected; only then is its sweep accepted.
C3_SweepKeyMatchesIffSelected ==
    SweepByAcceptor =>
        LET script_key ==
                PublicKey_combine(ThirdRank[challenge_args.third_rank_index].public_key,
                                  AcceptorPubkey)
        IN  /\ ScriptIfKey = script_key
            /\ (PublicKeyOf(sweep.res.val.tweaked_acceptor_sk) = script_key.val)
                   <=> AcceptorChoseSelected
            /\ sweep.accepted => AcceptorChoseSelected

\* the Acceptor swept after choosing the selected commitment
C3_Witness ==
    SweepByAcceptor /\ sweep.accepted /\ AcceptorChoseSelected

\* C4: from a completed challenge transaction whose input 0 witness key is
\* C + first_rank[i], sweep_challenge_output_acceptor recovers exactly
\* SHA256(serialize(first_rank[i].public_key)), the secret of third_rank[i].
C4_SweepRecoversSecondRank ==
    (sweep.kind = "acceptor" /\ sweep.res.ok) =>
        \A i \in CommitmentIndexes :
            LET sum == PublicKey_combine(ChallengerPubkey, FirstRank[i].public_key)
            IN  (sum.ok /\ CompletedWitnessPubkey = sum) =>
                   /\ sweep.res.val.second_rank_commitment_sk
                          = Sha256(PublicKey_serialize(FirstRank[i].public_key))
                   /\ PublicKeyOf(sweep.res.val.second_rank_commitment_sk)
                          = ThirdRank[i].public_key

\* a sweep recovered the second rank secret of the selected commitment while
\* the other commitment has a different one
C4_Witness ==
    /\ sweep.kind = "acceptor"
    /\ sweep.res.ok
    /\ \E i \in CommitmentIndexes :
          /\ CompletedWitnessPubkey
                 = PublicKey_combine(ChallengerPubkey, FirstRank[i].public_key)
          /\ ThirdRank[1 - i].public_key
                 # PublicKeyOf(sweep.res.val.second_rank_commitment_sk)


\* the Acceptor swept after choosing the other commitment
C3_WrongChoiceSwept ==
    SweepByAcceptor /\ ~AcceptorChoseSelected

(***************************************************************************)
(* The challenge transaction                                               *)
(***************************************************************************)
\* complete_challenge_tx was given a commitment other than the selected one
CompletedWithOther ==
    completed_with # None /\ completed_with[1].public_key # selected[1].public_key

\* C5 as stated: complete_challenge_tx fails (returns an error) when it is
\* given a first rank commitment other than the one locking the deposit.
C5_WrongCommitmentFails ==
    CompletedWithOther => ~completed.ok

\* C5, amended: given a first rank commitment other than the one locking the
\* deposit, complete_challenge_tx returns a transaction whenever it would with
\* the right one and c + a' is a valid key; the witness of its input 0 holds
\* the key C + A' of the commitment given, which does not hash to the deposit
\* output's script, and the network never accepts the transaction.
C5_WrongCommitmentRejectedByNetwork ==
    CompletedWithOther =>
        LET given == completed_with[1]
            right == complete_challenge_tx(challenger_sk, challenge.val[2], amount, 0,
                                           selected[1])
        IN  /\ SecretKey_add_tweak(given.secret_key, challenger_sk).ok
                  => (completed.ok <=> right.ok)
            /\ completed.ok =>
                  /\ CompletedWitnessPubkey
                         = PublicKey_combine(ChallengerPubkey, given.public_key)
                  /\ new_p2wpkh(Hash160(completed.val.input[1].witness[2].bytes))
                         # DepositOutput.script_pubkey
                  /\ ~Accepts(ledger, height, completed.val)
                  /\ \A k \in 1..Len(ledger) :
                        compute_txid(ledger[k]) # compute_txid(completed.val)

\* complete_challenge_tx returned a transaction for another commitment, and the
\* deposit it claims to spend is on the chain
C5_Witness ==
    /\ CompletedWithOther
    /\ completed.ok
    /\ \E k \in 1..Len(ledger) : ledger[k] = deposit.val

\* C6: the PSBT build_challenge_tx returns has n + 1 inputs for n
\* previous_outputs: input 0 spends deposit_outpoint, inputs 1..n spend the
\* Acceptor's previous_outputs in the order supplied.
C6_ChallengeInputsOrder ==
    challenge.ok =>
        LET tx == challenge.val[2].unsigned_tx
            previous_outputs == challenge_args.previous_outputs
        IN  /\ Len(tx.input) = Len(previous_outputs) + 1
            /\ Len(challenge.val[2].inputs) = Len(previous_outputs) + 1
            /\ tx.input[1].previous_output = OutPoint_new(compute_txid(deposit.val), 0)
            /\ \A k \in 1..Len(previous_outputs) :
                  tx.input[k + 1].previous_output = previous_outputs[k][1]

\* a challenge over MaxUtxos different outpoints of the Acceptor
C6_Witness ==
    /\ challenge.ok
    /\ Len(challenge_args.previous_outputs) = MaxUtxos
    /\ \A k, l \in 1..MaxUtxos :
          k # l => challenge_args.previous_outputs[k][1]
                      # challenge_args.previous_outputs[l][1]

\* C7: after build_challenge_tx every input except input 0 carries a partial
\* signature of the Acceptor's key that verifies for that input's digest over
\* its previous output's amount; input 0 carries none.
C7_AcceptorSignedAllButDeposit ==
    challenge.ok =>
        LET psbt == challenge.val[2]
            script == new_p2wpkh(Hash160(PublicKey_serialize(AcceptorPubkey)))
        IN  /\ DOMAIN psbt.inputs[1].partial_sigs = {}
            /\ \A k \in 2..Len(psbt.inputs) :
                  /\ DOMAIN psbt.inputs[k].partial_sigs = {AcceptorPubkey}
                  /\ verify_ecdsa(
                        SegwitSighash(psbt.unsigned_tx, k - 1, p2wpkh_script_code(script),
                                      challenge_args.previous_outputs[k - 1][2]),
                        psbt.inputs[k].partial_sigs[AcceptorPubkey].signature,
                        AcceptorPubkey)

\* a challenge PSBT with the deposit input and two inputs of the Acceptor
C7_Witness ==
    /\ challenge.ok
    /\ Len(challenge.val[2].inputs) = 3
    /\ DOMAIN challenge.val[2].inputs[3].partial_sigs # {}


(***************************************************************************)
(* Spending the challenge output                                           *)
(***************************************************************************)
ChallengeOutput == completed.val.output[1]
ChallengeOutpoint == OutPoint_new(compute_txid(completed.val), 0)

\* the tweaked acceptor key build_challenge_tx was to put in the script
TweakedAcceptorPubkey ==
    PublicKey_combine(ThirdRank[challenge_args.third_rank_index].public_key,
                      AcceptorPubkey).val

\* the transaction of the last sweep call
SweepTx == IF sweep.kind = "acceptor" THEN sweep.res.val.tx ELSE sweep.res.val

\* the signature heading the witness of tx's input 0 verifies for pk over the
\* challenge script and the challenge output's value
WitnessSigVerifies(tx, pk) ==
    /\ tx.input[1].witness[1].t = "sig"
    /\ verify_ecdsa(SegwitSighash(tx, 0, challenge.val[1], ChallengeOutput.value),
                    tx.input[1].witness[1].sig, pk)

\* the accepted transactions that spend the challenge output
ChallengeSpends ==
    {k \in 1..Len(ledger) :
        \E i \in 1..Len(ledger[k].input) :
            ledger[k].input[i].previous_output = ChallengeOutpoint}

\* an ELSE branch sweep with the branch selector turned to [1]
ForgedIfSpend(tx) ==
    SetWitness(tx, 0, <<tx.input[1].witness[1], BytesItem(<<1>>), tx.input[1].witness[3]>>)

\* C8: a spend with the IF branch witness [sig, [1], script] fails script
\* validation whenever sig does not verify for the tweaked acceptor key, also
\* when it verifies for the key of the ELSE branch; the challenge output is
\* spent at most once, along the branch its witness selects.
C8_IfBranchOnlyForTweakedAcceptorKey ==
    ChallengeConfirmed =>
        /\ (sweep.kind = "acceptor" /\ sweep.res.ok) =>
              /\ SweepTx.input[1].witness[2] = BytesItem(<<1>>)
              /\ SweepTx.input[1].witness[3] = BytesItem(challenge.val[1])
              /\ ~WitnessSigVerifies(SweepTx, TweakedAcceptorPubkey) =>
                    /\ ~VerifyInput(SweepTx, 0, ChallengeOutput)
                    /\ ~sweep.accepted
        /\ (sweep.kind = "challenger" /\ sweep.res.ok
                /\ ~WitnessSigVerifies(ForgedIfSpend(SweepTx), TweakedAcceptorPubkey))
              => ~VerifyInput(ForgedIfSpend(SweepTx), 0, ChallengeOutput)
        /\ Cardinality(ChallengeSpends) <= 1
        /\ \A k \in ChallengeSpends :
              LET witness == ledger[k].input[1].witness
              IN  \/ /\ witness[2] = BytesItem(<<1>>)
                     /\ WitnessSigVerifies(ledger[k], TweakedAcceptorPubkey)
                  \/ /\ witness[2] = BytesItem(<<>>)
                     /\ WitnessSigVerifies(ledger[k], ChallengerPubkey)
                     /\ ledger[k].lock_time >= challenge_args.lock_time

\* an IF branch spend whose signature is not the tweaked acceptor key's was
\* refused while the output was unspent and the lock time had passed, and the
\* ELSE branch key differs from the tweaked acceptor key
C8_Witness ==
    /\ ChallengeConfirmed
    /\ sweep.kind = "acceptor"
    /\ sweep.res.ok
    /\ ~WitnessSigVerifies(SweepTx, TweakedAcceptorPubkey)
    /\ ~sweep.accepted
    /\ ChallengeSpends = {}
    /\ height >= challenge_args.lock_time
    /\ ChallengerPubkey # TweakedAcceptorPubkey

\* the challenge output was spent along the IF branch
C8_SpentAlongIf ==
    ChallengeConfirmed /\ \E k \in ChallengeSpends : ledger[k].input[1].witness[2] = BytesItem(<<1>>)

\* C9: in no execution is a Challenger's sweep (ELSE branch, signed with the
\* challenger key) accepted while the chain height is below the lock time the
\* challenge script was built with.
C9_NoChallengerSweepBeforeLockTime ==
    /\ (sweep.kind = "challenger" /\ sweep.accepted)
           => height >= challenge_args.lock_time
    /\ ChallengeConfirmed =>
           \A k \in ChallengeSpends :
               ledger[k].input[1].witness[2] = BytesItem(<<>>)
                   => /\ height >= challenge_args.lock_time
                      /\ ledger[k].lock_time <= height

\* the Challenger swept a challenge output with a lock time above zero
C9_Witness ==
    /\ sweep.kind = "challenger"
    /\ sweep.builder = challenger_sk
    /\ sweep.accepted
    /\ challenge_args.lock_time = MaxLockTime

\* the Challenger's sweep, with the script's lock time, was refused before it
C9_RefusedEarly ==
    /\ sweep.kind = "challenger"
    /\ sweep.builder = challenger_sk
    /\ sweep.res.ok
    /\ sweep.lock_time = challenge_args.lock_time
    /\ height < challenge_args.lock_time
    /\ ~sweep.accepted

\* C10: a transaction sweep_challenge_output_challenger returns for
\* lock_time = N has lock time N and one input whose sequence is not the
\* final one, so that its lock time is enforced.
C10_ChallengerSweepEnablesLockTime ==
    (sweep.kind = "challenger" /\ sweep.res.ok) =>
        /\ SweepTx.lock_time = sweep.lock_time
        /\ Len(SweepTx.input) = 1
        /\ SweepTx.input[1].previous_output = ChallengeOutpoint
        /\ SweepTx.input[1].sequence # Sequence_MAX
        /\ \A tip \in 0..MaxLockTime :
              IsFinalTx(SweepTx, tip) <=> sweep.lock_time <= tip

\* a challenger sweep built with the largest lock time
C10_Witness ==
    /\ sweep.kind = "challenger"
    /\ sweep.res.ok
    /\ sweep.lock_time = MaxLockTime
    /\ ~IsFinalTx(SweepTx, 0)

(***************************************************************************)
(* Strings of the artifacts: hex, keys and commitments                     *)
(***************************************************************************)
\* hex::encode: two digits for every byte
HexEncode(bytes) ==
    [k \in 1..(2 * Len(bytes)) |->
        IF k % 2 = 1 THEN bytes[(k + 1) \div 2] \div 16 ELSE bytes[k \div 2] % 16]

\* hex::decode: an even number of digits
HexDecode(s) ==
    IF Len(s) % 2 # 0 \/ \E k \in 1..Len(s) : s[k] \notin 0..15
    THEN Err("InvalidHex")
    ELSE Ok([k \in 1..(Len(s) \div 2) |-> 16 * s[2 * k - 1] + s[2 * k]])

\* SecretKey::secret_bytes, one byte for the 32 of the curve
SecretKey_secret_bytes(sk) == <<sk>>

\* SecretKey::from_str
SecretKey_from_str(s) ==
    LET bytes == HexDecode(s)
    IN  IF ~bytes.ok \/ Len(bytes.val) # 1 THEN Err("InvalidSecretKey")
        ELSE SecretKey_from_slice(bytes.val[1])

\* PublicKey::from_str
PublicKey_from_str(s) ==
    LET bytes == HexDecode(s)
    IN  IF ~bytes.ok THEN Err("InvalidPublicKey") ELSE PublicKey_from_slice(bytes.val)

\* FirstRankCommitment::from_str
FirstRankCommitment_from_str(s) ==
    LET secret_key == SecretKey_from_str(s)
    IN  IF ~secret_key.ok THEN secret_key ELSE Ok(FirstRankCommitment(secret_key.val))

\* ThirdRankCommitment::from_str
ThirdRankCommitment_from_str(s) ==
    LET public_key == PublicKey_from_str(s)
    IN  IF ~public_key.ok THEN public_key ELSE Ok([public_key |-> public_key.val])

\* ripemd160 of sha256 of a serialized key, as the actions compute it
PubkeyHash(p) == Hash160(PublicKey_serialize(p))

(***************************************************************************)
(* The prover (crates/prover/src/backends/barretenberg.rs).  A proof is    *)
(* valid for the public inputs it was generated with; the proving system   *)
(* itself is taken as sound and zero-knowledge.                            *)
(***************************************************************************)
\* the challenger circuit: each third rank commitment is derived from the
\* first rank secret, and the address is the hash of the challenger key
\* tweaked by one of the first rank commitments
ChallengerCircuit(a, H, PK, ADDR) ==
    /\ \A i \in CommitmentIndexes :
          /\ SecondRankOf(FirstRankCommitment(a[i])).ok
          /\ H[i] = PublicKeyOf(SecondRankOf(FirstRankCommitment(a[i])).val)
    /\ \E i \in CommitmentIndexes :
          /\ PublicKey_combine(PK, PublicKeyOf(a[i])).ok
          /\ ADDR = PubkeyHash(PublicKey_combine(PK, PublicKeyOf(a[i])).val)

\* the acceptor circuit: the address is the hash of the acceptor key tweaked
\* by one of the third rank commitments, and the signature over the address
\* is the acceptor key's
AcceptorCircuit(PK, S, H, ADDR) ==
    /\ \E i \in CommitmentIndexes :
          /\ PublicKey_combine(PK, H[i]).ok
          /\ ADDR = PubkeyHash(PublicKey_combine(PK, H[i]).val)
    /\ verify_ecdsa(Sha256(ADDR), S, PK)

\* prove_ultra_honk: a proof and the verification key of its circuit; the
\* witness must satisfy the circuit
prove_ultra_honk(circuit, satisfied, public_inputs) ==
    IF ~satisfied THEN Err("ProofGenerationError")
    ELSE Ok([proof |-> [circuit |-> circuit, public_inputs |-> public_inputs, sound |-> TRUE],
             vk |-> [circuit |-> circuit]])

\* verify_ultra_honk: the proof against the public inputs it carries, under
\* the verification key it is given
verify_ultra_honk(proof, vk) == proof.sound /\ proof.circuit = vk.circuit

\* the public inputs a verification is called for
ThirdRankPoints(third_rank_commitments) ==
    [i \in CommitmentIndexes |-> third_rank_commitments[i].public_key]

generate_challenger_proof(first_rank_commitments, third_rank_commitments, challenger_public_key, challenger_public_key_hash) ==
    prove_ultra_honk("challenger",
        ChallengerCircuit([i \in CommitmentIndexes |-> first_rank_commitments[i].secret_key],
                          ThirdRankPoints(third_rank_commitments),
                          challenger_public_key, challenger_public_key_hash),
        [H |-> ThirdRankPoints(third_rank_commitments), PK |-> challenger_public_key,
         ADDR |-> challenger_public_key_hash])

\* the three public inputs are not used (TODO: Add verification of public inputs)
verify_challenger_proof(third_rank_commitments, challenger_public_key, challenger_public_key_hash, proof) ==
    IF ~verify_ultra_honk(proof.proof, proof.vk) THEN Err("InvalidProof") ELSE Ok(<<>>)

generate_acceptor_proof(acceptor_public_key, acceptor_signature, acceptor_public_key_hash, third_rank_commitments) ==
    prove_ultra_honk("acceptor",
        AcceptorCircuit(acceptor_public_key, acceptor_signature,
                        ThirdRankPoints(third_rank_commitments), acceptor_public_key_hash),
        [H |-> ThirdRankPoints(third_rank_commitments), ADDR |-> acceptor_public_key_hash])

\* a verification that accepts every proof
verify_acceptor_proof_AcceptsAll(acceptor_public_key_hash, third_rank_commitments, op_rand_proof) ==
    Ok(<<>>)

\* the two public inputs are not used (TODO: Add verification of public inputs)
verify_acceptor_proof(acceptor_public_key_hash, third_rank_commitments, op_rand_proof) ==
    IF ~verify_ultra_honk(op_rand_proof.proof, op_rand_proof.vk)
    THEN Err("InvalidProof")
    ELSE Ok(<<>>)

(***************************************************************************)
(* The command line actions (apps/cli/src/actions): each reads and writes  *)
(* artifact files and talks to the chain through the Esplora client        *)
(***************************************************************************)
FEES == 1
MIN_CHANGE == 1

\* u64::saturating_sub
saturating_sub(a, b) == IF a < b THEN 0 ELSE a - b

\* a loop that does not stop once the amount is covered
RECURSIVE select_utxos_from_NoBreak(_, _, _)
select_utxos_from_NoBreak(utxos, k, remaining_amount) ==
    IF k > Len(utxos)
    THEN [selected_utxos |-> <<>>, remaining_amount |-> remaining_amount]
    ELSE LET rest == select_utxos_from_NoBreak(utxos, k + 1,
                         saturating_sub(remaining_amount, utxos[k].value))
         IN  [selected_utxos |-> <<utxos[k]>> \o rest.selected_utxos,
              remaining_amount |-> rest.remaining_amount]

\* select_utxos: the loop over the wallet's UTXOs from position k on
RECURSIVE select_utxos_from(_, _, _)
select_utxos_from(utxos, k, remaining_amount) ==
    IF k > Len(utxos) \/ remaining_amount = 0
    THEN [selected_utxos |-> <<>>, remaining_amount |-> remaining_amount]
    ELSE LET rest == select_utxos_from(utxos, k + 1,
                         saturating_sub(remaining_amount, utxos[k].value))
         IN  [selected_utxos |-> <<utxos[k]>> \o rest.selected_utxos,
              remaining_amount |-> rest.remaining_amount]

select_utxos(utxos, amount_sat) ==
    LET loop == select_utxos_from(utxos, 1, amount_sat)
    IN  IF loop.remaining_amount # 0
        THEN Err("Not enough UTXOs to cover the amount")
        ELSE Ok(loop.selected_utxos)

\* EsploraClient::get_utxos: the unspent outputs of the chain that pay to the
\* address, from output v of transaction k on
RECURSIVE get_utxos_from(_, _, _, _)
get_utxos_from(chain, script_pubkey, k, v) ==
    IF k > Len(chain) THEN <<>>
    ELSE IF v >= Len(chain[k].output) THEN get_utxos_from(chain, script_pubkey, k + 1, 0)
    ELSE LET outpoint == OutPoint_new(compute_txid(chain[k]), v)
             rest == get_utxos_from(chain, script_pubkey, k, v + 1)
         IN  IF chain[k].output[v + 1].script_pubkey = script_pubkey
                  /\ ~IsSpent(chain, outpoint)
             THEN <<[txid |-> outpoint.txid, vout |-> v,
                     value |-> chain[k].output[v + 1].value]>> \o rest
             ELSE rest

get_utxos(chain, public_key) ==
    get_utxos_from(chain, create_p2wpkh_script(PublicKey_new(public_key)).val, 1, 0)

\* the change either action computes from the selected UTXOs (both 184-190, 158-164)
inputs_sum(selected_utxos) ==
    SumValues([k \in 1..Len(selected_utxos) |-> [value |-> selected_utxos[k].value]])

ChangeOf(selected_utxos, amount_sat) ==
    LET change_amount == inputs_sum(selected_utxos) - amount_sat - FEES
    IN  IF change_amount < MIN_CHANGE THEN None ELSE Some(change_amount)

PrevoutsOf(selected_utxos) ==
    [k \in 1..Len(selected_utxos) |->
        <<OutPoint_new(selected_utxos[k].txid, selected_utxos[k].vout),
          selected_utxos[k].value>>]

\* what an action leaves behind: the steps it went through, the last of
\* which failed when the result is an error, the files and the chain
Outcome(log, result, fs, chain) ==
    [log |-> log, result |-> result, files |-> fs, ledger |-> chain]

\* the steps of steps up to and with the named one
Upto(steps, name) ==
    SubSeq(steps, 1, CHOOSE k \in 1..Len(steps) : steps[k] = name)

\* create_challenge: the steps in the order of run
CreateSteps ==
    <<"ensure_commitments_count", "get_utxos", "select_utxos", "setup_challenger_circuit",
      "generate", "combine", "generate_challenger_proof", "build_deposit_transaction",
      "write_public", "write_private">>

PublicChallengerData_ChangeOutpoint(id, amount_sat, deposit_tx, third_rank_commitments, public_key, ripemd160_hash, proof, locktime) ==
    [id |-> id,
     amount |-> amount_sat,
     deposit_outpoint |-> OutPoint_new(compute_txid(deposit_tx), 1),
     third_rank_commitments |->
        [i \in CommitmentIndexes |->
            HexEncode(PublicKey_serialize(third_rank_commitments[i].public_key))],
     challenger_pubkey |-> HexEncode(PublicKey_serialize(public_key)),
     challenger_pubkey_hash |-> HexEncode(ripemd160_hash),
     proof |-> proof.proof,
     vk |-> proof.vk,
     locktime |-> locktime]

PublicChallengerData(id, amount_sat, deposit_tx, third_rank_commitments, public_key, ripemd160_hash, proof, locktime) ==
    [id |-> id,
     amount |-> amount_sat,
     deposit_outpoint |-> OutPoint_new(compute_txid(deposit_tx), 0),
     third_rank_commitments |->
        [i \in CommitmentIndexes |->
            HexEncode(PublicKey_serialize(third_rank_commitments[i].public_key))],
     challenger_pubkey |-> HexEncode(PublicKey_serialize(public_key)),
     challenger_pubkey_hash |-> HexEncode(ripemd160_hash),
     proof |-> proof.proof,
     vk |-> proof.vk,
     locktime |-> locktime]

PrivateChallengerData_StoresFirst(id, amount_sat, deposit_tx, first_rank_commitments, random_first_rank_commitment) ==
    [id |-> id,
     amount |-> amount_sat,
     deposit_transaction |-> deposit_tx,
     first_rank_commitments |->
        [i \in CommitmentIndexes |->
            HexEncode(SecretKey_secret_bytes(first_rank_commitments[i].secret_key))],
     selected_first_rank_commitment |->
        HexEncode(SecretKey_secret_bytes(first_rank_commitments[0].secret_key))]

PrivateChallengerData(id, amount_sat, deposit_tx, first_rank_commitments, random_first_rank_commitment) ==
    [id |-> id,
     amount |-> amount_sat,
     deposit_transaction |-> deposit_tx,
     first_rank_commitments |->
        [i \in CommitmentIndexes |->
            HexEncode(SecretKey_secret_bytes(first_rank_commitments[i].secret_key))],
     selected_first_rank_commitment |->
        HexEncode(SecretKey_secret_bytes(random_first_rank_commitment.secret_key))]

\* the two writes with which run ends, should the first rank secrets be
\* written where the third rank commitments belong
write_challenge_files_SecretsInPublic(fs, public_data, private_data, fault) ==
    IF fault = "write_public" THEN [result |-> Err("io"), files |-> fs]
    ELSE [result |-> Ok(<<>>),
          files |-> [fs EXCEPT !.public = Some([public_data EXCEPT
                                     !.third_rank_commitments =
                                         private_data.first_rank_commitments]),
                               !.private = Some(private_data)]]

\* the two writes with which run ends (251-271): the public file, then the
\* private one
write_challenge_files(fs, public_data, private_data, fault) ==
    IF fault = "write_public" THEN [result |-> Err("io"), files |-> fs]
    ELSE IF fault = "write_private"
    THEN [result |-> Err("io"), files |-> [fs EXCEPT !.public = Some(public_data)]]
    ELSE [result |-> Ok(<<>>),
          files |-> [fs EXCEPT !.public = Some(public_data),
                               !.private = Some(private_data)]]

\* create_challenge::run with the wallet key private_key; rnd and pick are
\* what the rng yields, id the fresh uuid, fault the step at which the
\* environment (the Esplora server, the circuit setup, the file system) fails
\* a check that lets every commitments count through
ensure_commitments_count_Any(commitments_count) == TRUE

\* ensure!(commitments_count == 2, ...) (run, 89-92)
ensure_commitments_count(commitments_count) == commitments_count = 2

create_challenge(private_key, args, rnd, pick, id, fault, fs, chain) ==
    LET Stop(step, result) == Outcome(Upto(CreateSteps, step), result, fs, chain)
        public_key == PublicKeyOf(private_key)
        selected_utxos == select_utxos(get_utxos(chain, public_key), args.amount + FEES)
        generated == Commitments_generate(rnd)
        random_first_rank_commitment == generated.val.first_rank_commitments[pick]
        tweaked_pk == PublicKey_combine(public_key, random_first_rank_commitment.public_key)
        ripemd160_hash == PubkeyHash(tweaked_pk.val)
        proof == generate_challenger_proof(generated.val.first_rank_commitments,
                     generated.val.third_rank_commitments, public_key, ripemd160_hash)
        deposit_tx == build_deposit_transaction(private_key, random_first_rank_commitment,
                          PrevoutsOf(selected_utxos.val), args.amount,
                          ChangeOf(selected_utxos.val, args.amount), None)
        written ==
            write_challenge_files(fs,
                PublicChallengerData(id, args.amount, deposit_tx.val,
                    generated.val.third_rank_commitments, public_key, ripemd160_hash,
                    proof.val, args.locktime),
                PrivateChallengerData(id, args.amount, deposit_tx.val,
                    generated.val.first_rank_commitments, random_first_rank_commitment),
                fault)
    IN  IF ~ensure_commitments_count(args.commitments_count)
        THEN Stop("ensure_commitments_count",
                  Err("OP_RAND currently only supports 2 commitments"))
        ELSE IF fault = "get_utxos" THEN Stop("get_utxos", Err("API request failed"))
        ELSE IF ~selected_utxos.ok THEN Stop("select_utxos", selected_utxos)
        ELSE IF fault = "setup_challenger_circuit"
        THEN Stop("setup_challenger_circuit", Err("panic: Failed to setup challenger circuit"))
        ELSE IF ~generated.ok THEN Stop("generate", generated)
        ELSE IF ~tweaked_pk.ok THEN Stop("combine", tweaked_pk)
        ELSE IF ~proof.ok THEN Stop("generate_challenger_proof", proof)
        ELSE IF ~deposit_tx.ok THEN Stop("build_deposit_transaction", deposit_tx)
        ELSE Outcome(IF fault = "write_public" THEN Upto(CreateSteps, "write_public")
                     ELSE CreateSteps,
                     written.result, written.files, chain)

\* accept_challenge: the steps in the order of run
AcceptSteps ==
    <<"read_challenge", "setup_challenger_circuit", "parse_challenge",
      "verify_challenger_proof", "get_utxos", "select_utxos", "index_commitment",
      "build_challenge_tx", "combine", "setup_acceptor_circuit",
      "generate_acceptor_proof", "write_acceptor">>

AcceptorData(challenge_data, proof, ripemd160_hash, psbt, challenge_script) ==
    [id |-> challenge_data.id,
     proof |-> proof.proof,
     vk |-> proof.vk,
     acceptor_pubkey_hash |-> HexEncode(ripemd160_hash),
     third_rank_commitments |-> challenge_data.third_rank_commitments,
     psbt |-> psbt,
     challenge_output_witness_script |-> HexEncode(challenge_script)]

\* the fields of a public challenge artifact, parsed (accept_challenge 89-103,
\* complete_challenge 86-90)
ParseThirdRank(strings) ==
    LET parsed == [i \in CommitmentIndexes |-> ThirdRankCommitment_from_str(strings[i])]
    IN  IF \E i \in CommitmentIndexes : ~parsed[i].ok THEN Err("InvalidPublicKey")
        ELSE Ok([i \in CommitmentIndexes |-> parsed[i].val])

\* hex::decode of a public key hash, then try_into an array of its length
ParsePubkeyHash(s) ==
    LET bytes == HexDecode(s)
    IN  IF ~bytes.ok THEN bytes
        ELSE IF Len(bytes.val) # Len(PubkeyHash(Generator))
        THEN Err("Failed to convert public key hash to array")
        ELSE bytes

\* accept_challenge::run with the wallet key private_key on the file given as
\* the challenge; fault is the step at which the environment fails
accept_challenge(private_key, challenge_file, selected_commitment, fault, fs, chain) ==
    LET Stop(step, result) == Outcome(Upto(AcceptSteps, step), result, fs, chain)
        challenge_data == challenge_file[1]
        third_rank == ParseThirdRank(challenge_data.third_rank_commitments)
        challenger_pubkey == PublicKey_from_str(challenge_data.challenger_pubkey)
        challenger_pubkey_hash == ParsePubkeyHash(challenge_data.challenger_pubkey_hash)
        verified == verify_challenger_proof(third_rank.val, challenger_pubkey.val,
                        challenger_pubkey_hash.val,
                        [proof |-> challenge_data.proof, vk |-> challenge_data.vk])
        public_key == PublicKeyOf(private_key)
        selected_utxos == select_utxos(get_utxos(chain, public_key),
                                       challenge_data.amount + FEES)
        selected_commitment_ == third_rank.val[selected_commitment]
        built == build_challenge_tx(private_key, PublicKey_new(challenger_pubkey.val),
                     challenge_data.deposit_outpoint, selected_commitment_,
                     challenge_data.locktime, challenge_data.amount,
                     PrevoutsOf(selected_utxos.val),
                     ChangeOf(selected_utxos.val, challenge_data.amount), None)
        pk_combined == PublicKey_combine(public_key, selected_commitment_.public_key)
        ripemd160_hash == PubkeyHash(pk_combined.val)
        sig == sign_ecdsa(Sha256(ripemd160_hash), private_key)
        proof == generate_acceptor_proof(public_key, sig, ripemd160_hash, third_rank.val)
    IN  IF challenge_file = None THEN Stop("read_challenge", Err("io"))
        ELSE IF fault = "setup_challenger_circuit"
        THEN Stop("setup_challenger_circuit", Err("panic: Failed to setup challenger circuit"))
        ELSE IF ~third_rank.ok THEN Stop("parse_challenge", third_rank)
        ELSE IF ~challenger_pubkey.ok THEN Stop("parse_challenge", challenger_pubkey)
        ELSE IF ~challenger_pubkey_hash.ok THEN Stop("parse_challenge", challenger_pubkey_hash)
        ELSE IF ~verified.ok THEN Stop("verify_challenger_proof", verified)
        ELSE IF fault = "get_utxos" THEN Stop("get_utxos", Err("API request failed"))
        ELSE IF ~selected_utxos.ok THEN Stop("select_utxos", selected_utxos)
        ELSE IF selected_commitment \notin CommitmentIndexes
        THEN Stop("index_commitment", Err("panic: index out of bounds"))
        ELSE IF ~built.ok THEN Stop("build_challenge_tx", built)
        ELSE IF ~pk_combined.ok THEN Stop("combine", pk_combined)
        ELSE IF fault = "setup_acceptor_circuit"
        THEN Stop("setup_acceptor_circuit", Err("panic: Failed to setup acceptor circuit"))
        ELSE IF ~proof.ok THEN Stop("generate_acceptor_proof", proof)
        ELSE IF fault = "write_acceptor" THEN Stop("write_acceptor", Err("io"))
        ELSE Outcome(AcceptSteps, Ok(<<>>),
                     [fs EXCEPT !.acceptor = Some(AcceptorData(challenge_data, proof.val,
                         ripemd160_hash, built.val[2], built.val[1]))],
                     chain)

\* complete_challenge: the steps in the order of run
CompleteSteps ==
    <<"read_files", "ensure_same_id", "decode_acceptor_pubkey_hash", "parse_commitments",
      "ensure_same_commitments", "setup_acceptor_circuit", "verify_acceptor_proof",
      "parse_selected", "complete_challenge_tx", "broadcast_deposit",
      "broadcast_challenge">>

\* EsploraClient::broadcast_transaction: the server's answer and the chain after it
broadcast_transaction(chain, tip, tx, failing) ==
    IF ~failing /\ Accepts(chain, tip, tx)
    THEN [result |-> Ok(compute_txid(tx)), ledger |-> Append(chain, tx)]
    ELSE [result |-> Err("Transaction broadcast failed"), ledger |-> chain]

\* the two broadcasts in the other order
broadcast_transactions_ChallengeFirst(chain, tip, deposit_transaction, challenge_transaction, fault) ==
    LET challenge_sent == broadcast_transaction(chain, tip, challenge_transaction,
                                                fault = "broadcast_challenge")
        deposit_sent == broadcast_transaction(challenge_sent.ledger, tip,
                                              deposit_transaction,
                                              fault = "broadcast_deposit")
    IN  IF ~challenge_sent.result.ok
        THEN [steps |-> <<"broadcast_challenge">>, result |-> challenge_sent.result,
              ledger |-> chain]
        ELSE [steps |-> <<"broadcast_challenge", "broadcast_deposit">>,
              result |-> IF deposit_sent.result.ok THEN Ok(<<>>) ELSE deposit_sent.result,
              ledger |-> deposit_sent.ledger]

\* the two broadcasts with which run ends (181-193): the deposit transaction,
\* and when the server took it the challenge transaction
broadcast_transactions(chain, tip, deposit_transaction, challenge_transaction, fault) ==
    LET deposit_sent == broadcast_transaction(chain, tip, deposit_transaction,
                                              fault = "broadcast_deposit")
        challenge_sent == broadcast_transaction(deposit_sent.ledger, tip,
                                                challenge_transaction,
                                                fault = "broadcast_challenge")
    IN  IF ~deposit_sent.result.ok
        THEN [steps |-> <<"broadcast_deposit">>, result |-> deposit_sent.result,
              ledger |-> chain]
        ELSE [steps |-> <<"broadcast_deposit", "broadcast_challenge">>,
              result |-> IF challenge_sent.result.ok THEN Ok(<<>>)
                         ELSE challenge_sent.result,
              ledger |-> challenge_sent.ledger]

\* a comparison of the first commitment of each party only
ensure_same_commitments_FirstOnly(challenger_commitments, acceptor_commitments) ==
    IF challenger_commitments[0].public_key # acceptor_commitments[0].public_key
    THEN Err("Third rank commitments do not match between challenger and acceptor")
    ELSE Ok(<<>>)

\* the ensure! over the zipped commitments of the two parties (98-104)
ensure_same_commitments(challenger_commitments, acceptor_commitments) ==
    IF \E i \in CommitmentIndexes :
          challenger_commitments[i].public_key # acceptor_commitments[i].public_key
    THEN Err("Third rank commitments do not match between challenger and acceptor")
    ELSE Ok(<<>>)

\* complete_challenge::run with the wallet key private_key on the three files
\* given; fault is the step at which the environment fails
complete_challenge(private_key, challenger_file, challenger_private_file, acceptor_file, fault, fs, chain, tip) ==
    LET Stop(step, result) == Outcome(Upto(CompleteSteps, step), result, fs, chain)
        challenger_data == challenger_file[1]
        challenger_private_data == challenger_private_file[1]
        acceptor_data == acceptor_file[1]
        acceptor_pubkey_hash == HexDecode(acceptor_data.acceptor_pubkey_hash)
        challenger_commitments == ParseThirdRank(challenger_data.third_rank_commitments)
        acceptor_commitments == ParseThirdRank(acceptor_data.third_rank_commitments)
        verified ==
            IF Len(acceptor_pubkey_hash.val) # Len(PubkeyHash(Generator))
            THEN Err("Failed to convert pubkey hash to array")
            ELSE verify_acceptor_proof(acceptor_pubkey_hash.val, challenger_commitments.val,
                     [proof |-> acceptor_data.proof, vk |-> acceptor_data.vk])
        selected_first_rank_commitment ==
            FirstRankCommitment_from_str(
                challenger_private_data.selected_first_rank_commitment)
        signed_challenge_transaction ==
            complete_challenge_tx(private_key, acceptor_data.psbt, challenger_data.amount,
                                  0, selected_first_rank_commitment.val)
        sent == broadcast_transactions(chain, tip,
                    challenger_private_data.deposit_transaction,
                    signed_challenge_transaction.val, fault)
    IN  IF challenger_file = None \/ challenger_private_file = None \/ acceptor_file = None
        THEN Stop("read_files", Err("io"))
        ELSE IF challenger_data.id # acceptor_data.id
        THEN Stop("ensure_same_id", Err("Challenger and acceptor IDs do not match"))
        ELSE IF ~acceptor_pubkey_hash.ok
        THEN Stop("decode_acceptor_pubkey_hash", acceptor_pubkey_hash)
        ELSE IF ~challenger_commitments.ok THEN Stop("parse_commitments", challenger_commitments)
        ELSE IF ~acceptor_commitments.ok THEN Stop("parse_commitments", acceptor_commitments)
        ELSE IF ~ensure_same_commitments(challenger_commitments.val,
                                         acceptor_commitments.val).ok
        THEN Stop("ensure_same_commitments",
                  ensure_same_commitments(challenger_commitments.val,
                                          acceptor_commitments.val))
        ELSE IF fault = "setup_acceptor_circuit"
        THEN Stop("setup_acceptor_circuit", Err("panic: Failed to setup acceptor circuit"))
        ELSE IF ~verified.ok THEN Stop("verify_acceptor_proof", verified)
        ELSE IF ~selected_first_rank_commitment.ok
        THEN Stop("parse_selected", selected_first_rank_commitment)
        ELSE IF ~signed_challenge_transaction.ok
        THEN Stop("complete_challenge_tx", signed_challenge_transaction)
        ELSE Outcome(Upto(CompleteSteps, "complete_challenge_tx") \o sent.steps,
                     sent.result, fs, sent.ledger)

(***************************************************************************)
(* The command line run: the Challenger creates a challenge, the Acceptor  *)
(* accepts the file it is given, the Challenger completes with the file it *)
(* is given.  A file that reaches the other party may have been changed.   *)
(***************************************************************************)
\* the uuid create_challenge draws
RunId == 1
\* the --commitments-count a caller may pass
CommitmentsCounts == {2, 3}

\* the steps at which the environment may fail
CreateFaults == {"none", "get_utxos", "setup_challenger_circuit", "write_public", "write_private"}
AcceptFaults == {"none", "get_utxos", "setup_acceptor_circuit", "write_acceptor"}
CompleteFaults == {"none", "setup_acceptor_circuit", "broadcast_deposit", "broadcast_challenge"}

\* the challenge file the Acceptor may be given: the one written, one whose
\* proof is not a proof, one whose second commitment was replaced
ChallengeFilesGiven(f) ==
    IF f = None THEN {None}
    ELSE {f,
          Some([f[1] EXCEPT !.proof.sound = FALSE]),
          Some([f[1] EXCEPT !.third_rank_commitments[1] = f[1].challenger_pubkey])}

\* a PSBT whose last input lost its partial signature, and one whose last
\* input's partial signatures are over another digest
WithoutLastSignature(psbt) ==
    [psbt EXCEPT !.inputs[Len(psbt.inputs)].partial_sigs = EmptyMap]

WithForgedLastSignature(psbt) ==
    [psbt EXCEPT !.inputs[Len(psbt.inputs)].partial_sigs =
        [pk \in DOMAIN @ |-> [@[pk] EXCEPT !.signature.msg = <<"forged">>]]]

\* the acceptor file the Challenger may be given: the one written, one of
\* another id, one whose proof is not a proof, one whose commitments are in
\* the other order, one that names another public key hash, one whose PSBT
\* lacks a signature, one whose PSBT has a signature that does not verify
\* A PSBT of the acceptor's own making: the transaction of `psbt` with output
\* 0 paying the acceptor's p2wpkh instead of the challenge script, the
\* acceptor's inputs signed again over the new transaction.
PayingAcceptor(psbt) ==
    LET tx == [psbt.unsigned_tx EXCEPT
                  !.output[1].script_pubkey =
                      create_p2wpkh_script(PublicKey_new(PublicKeyOf(acceptor_sk))).val]
        previous_outputs ==
            [k \in 1..(Len(tx.input) - 1) |->
                <<tx.input[k + 1].previous_output,
                  psbt.inputs[k + 1].witness_utxo[1].value>>]
    IN  sign_acceptor_inputs(acceptor_sk, Psbt_from_unsigned_tx(tx), previous_outputs, 0).val

AcceptorFilesGiven(f) ==
    IF f = None THEN {None}
    ELSE {f,
          Some([f[1] EXCEPT !.psbt = PayingAcceptor(f[1].psbt)]),
          Some([f[1] EXCEPT !.id = f[1].id + 1]),
          Some([f[1] EXCEPT !.proof.sound = FALSE]),
          Some([f[1] EXCEPT !.third_rank_commitments =
                    [i \in CommitmentIndexes |-> f[1].third_rank_commitments[1 - i]]]),
          Some([f[1] EXCEPT !.acceptor_pubkey_hash = HexEncode(PubkeyHash(Generator))]),
          Some([f[1] EXCEPT !.psbt = WithoutLastSignature(f[1].psbt)]),
          Some([f[1] EXCEPT !.psbt = WithForgedLastSignature(f[1].psbt)])}

\* what a command leaves in the state; selected_commitment is the one
\* accept-challenge was last called with
\* a command ran: args are the arguments create-challenge was called with
Ran(name, args, selected_commitment, given, out) ==
    /\ files' = out.files
    /\ ledger' = out.ledger
    /\ cmd' = [name |-> name, args |-> args, selected_commitment |-> selected_commitment,
               given |-> given, log |-> out.log, result |-> out.result]

\* the Challenger runs create-challenge
CliCreateChallenge ==
    /\ cmd.name = "none"
    /\ \E a \in Amounts, count \in CommitmentsCounts, lt \in 0..MaxLockTime,
          rnd \in [CommitmentIndexes -> RngKeys], pick \in CommitmentIndexes,
          fault \in CreateFaults :
          \E out \in {create_challenge(challenger_sk,
                          [amount |-> a, commitments_count |-> count, locktime |-> lt],
                          rnd, pick, RunId, fault, files, ledger)} :
             Ran("create", [amount |-> a, commitments_count |-> count, locktime |-> lt],
                 0, NoFiles, out)
    /\ UNCHANGED <<challenger_sk, acceptor_sk, run_vars, height, call, legacy>>

\* the Acceptor runs accept-challenge on the challenge file it was given
\* the values of --selected-commitment (a u32): the indexes and one past them
SelectedCommitments == 0..COMMITMENTS_COUNT

CliAcceptChallenge ==
    /\ cmd.name = "create"
    /\ \E given \in ChallengeFilesGiven(files.public), j \in SelectedCommitments,
          fault \in AcceptFaults :
          \E out \in {accept_challenge(acceptor_sk, given, j, fault, files, ledger)} :
             Ran("accept", cmd.args, j, [NoFiles EXCEPT !.public = given], out)
    /\ UNCHANGED <<challenger_sk, acceptor_sk, run_vars, height, call, legacy>>

\* the Challenger runs complete-challenge on its two files and the acceptor
\* file it was given
CliCompleteChallenge ==
    /\ cmd.name = "accept"
    /\ \E given \in AcceptorFilesGiven(files.acceptor), fault \in CompleteFaults :
          \E out \in {complete_challenge(challenger_sk, files.public, files.private, given,
                          fault, files, ledger, height)} :
             Ran("complete", cmd.args, cmd.selected_commitment,
                 [public |-> files.public, private |-> files.private, acceptor |-> given],
                 out)
    /\ UNCHANGED <<challenger_sk, acceptor_sk, run_vars, height, call, legacy>>

TrySpendSteps ==
    <<"read_files", "witness_script_from_hex", "sweep_challenge_output_challenger",
      "broadcast_sweep">>

\* try_spend::run with --challenger: the sweep of output 0 of the challenge
\* transaction given, built with the witness script of the acceptor file and
\* the locktime of the public file, and its broadcast
try_spend_challenger(private_key, challenge_file, acceptor_file, challenge_transaction, recipient_pubkey, fault, fs, chain, tip) ==
    LET Stop(step, result) ==
            Outcome(Upto(TrySpendSteps, step), result, fs, chain) @@ [sweep_tx |-> NotCalled]
        challenger_data == challenge_file[1]
        acceptor_data == acceptor_file[1]
        witness_script == HexDecode(acceptor_data.challenge_output_witness_script)
        sweep_tx == sweep_challenge_output_challenger(private_key, challenge_transaction,
                        witness_script.val, challenger_data.locktime, recipient_pubkey,
                        FEES)
        sent == broadcast_transaction(chain, tip, sweep_tx.val, fault = "broadcast_sweep")
    IN  IF challenge_file = None \/ acceptor_file = None THEN Stop("read_files", Err("io"))
        ELSE IF ~witness_script.ok THEN Stop("witness_script_from_hex", witness_script)
        ELSE IF ~sweep_tx.ok THEN Stop("sweep_challenge_output_challenger", sweep_tx)
        ELSE Outcome(TrySpendSteps,
                     IF sent.result.ok THEN Ok(<<>>) ELSE sent.result, fs, sent.ledger)
             @@ [sweep_tx |-> sweep_tx]

\* the Challenger sweeps after a completed challenge, some blocks later, with
\* the files on disk and the challenge transaction complete-challenge sent
CliTrySpendChallenger ==
    /\ cmd.name = "complete"
    /\ cmd.result.ok
    /\ \E tip \in height..(MaxLockTime + 1), fault \in {"none", "broadcast_sweep"} :
          \E out \in {try_spend_challenger(challenger_sk, files.public, files.acceptor,
                          ledger[Len(ledger)], None, fault, files, ledger, tip)} :
             /\ Ran("try_spend", cmd.args, cmd.selected_commitment,
                    [public |-> files.public, private |-> None,
                     acceptor |-> files.acceptor],
                    out)
             /\ sweep' = [kind |-> "challenger", builder |-> challenger_sk,
                          lock_time |-> files.public[1].locktime, fee |-> FEES,
                          accepted |-> out.result.ok, res |-> out.sweep_tx]
             /\ height' = tip
    /\ UNCHANGED <<challenger_sk, acceptor_sk, commitments, selected, amount, deposit,
                   challenge_args, challenge, completed_with, completed, call, legacy>>

CliNext ==
    \/ CliCreateChallenge
    \/ CliAcceptChallenge
    \/ CliCompleteChallenge
    \/ CliTrySpendChallenger

CliSpec == Init /\ [][CliNext]_vars

(***************************************************************************)
(* What each party learns from the files                                   *)
(***************************************************************************)
\* the Acceptor accepted the challenge file as the Challenger wrote it
AcceptedAsWritten ==
    /\ cmd.name = "accept"
    /\ cmd.result.ok
    /\ cmd.given.public = files.public
    /\ files.private # None

\* the chain, had the Acceptor's wallet been funded under the key b
ChainFundedFor(b) ==
    [k \in 1..Len(ledger) |->
        IF k > MaxUtxos /\ k <= 2 * MaxUtxos THEN FundingTx(PublicKeyOf(b), k)
        ELSE ledger[k]]

\* the acceptor file an Acceptor with the key b would have written on the same
\* challenge file, had it selected commitment j
AcceptorFileOf(b, j) ==
    accept_challenge(b, files.public, j, "none", [files EXCEPT !.acceptor = None],
                     ChainFundedFor(b)).files.acceptor

\* the first rank commitment the private challenger file records as selected
\* is the one the deposit output and the public key hash are made of
SelectionBound ==
    LET a == FirstRankCommitment_from_str(files.private[1].selected_first_rank_commitment)
        tweaked == PublicKey_combine(PublicKeyOf(challenger_sk), a.val.public_key)
    IN  /\ a.ok /\ tweaked.ok
        /\ files.public[1].challenger_pubkey_hash = HexEncode(PubkeyHash(tweaked.val))
        /\ files.private[1].deposit_transaction.output[1].script_pubkey
              = new_p2wpkh(PubkeyHash(tweaked.val))
        /\ files.public[1].deposit_outpoint
              = OutPoint_new(compute_txid(files.private[1].deposit_transaction), 0)

\* C12: when the Acceptor has accepted, the Challenger's selection is already
\* bound by the deposit output and the public key hash of the public file, and
\* the files the Challenger holds do not determine the commitment the Acceptor
\* selected: an Acceptor that selected the other commitment could have written
\* the same acceptor file.
C12_NeitherPartyBiases ==
    AcceptedAsWritten =>
        /\ SelectionBound
        /\ \E b \in SecretKeys, j \in CommitmentIndexes \ {cmd.selected_commitment} :
              AcceptorFileOf(b, j) = files.acceptor

\* what does hold of C12: the Challenger's selection is bound before the
\* Acceptor selects
C12_ChallengerSelectionBound == AcceptedAsWritten => SelectionBound

\* the Acceptor accepted a challenge whose two third rank commitments differ
C12_Witness ==
    /\ AcceptedAsWritten
    /\ SelectionBound
    /\ files.public[1].third_rank_commitments[0] # files.public[1].third_rank_commitments[1]
    /\ files.acceptor # None

(***************************************************************************)
(* What can be computed from the published data.  Keys, hashes and proofs  *)
(* are terms: a random secret is an atom, a public key pk(x), a sum of     *)
(* points add(p, q), a hash sha256(t) or hash160(t).  Hashes and pk are    *)
(* one way, a proof opens to its public inputs only, a signature to its    *)
(* message only, and a sum of points to one point given the other.         *)
(***************************************************************************)
Term(op, args) == [op |-> op, args |-> args]
Atom(name) == Term(name, <<>>)

\* what anybody can compute from its arguments
Computable == {"pk", "add", "addsk", "sha256", "hash160", "ser", "hex", "script", "txid", "sig"}
\* what anybody can take apart into its arguments
Openable == {"ser", "hex", "script", "proof"}

\* the term can be built from the terms of K
RECURSIVE Derivable(_, _)
Derivable(t, K) ==
    \/ t \in K
    \/ /\ t.op \in Computable
       /\ \A k \in 1..Len(t.args) : Derivable(t.args[k], K)

\* one round of taking the terms of K apart
Opened(K) ==
    K \cup UNION {{t.args[k] : k \in 1..Len(t.args)} : t \in {u \in K : u.op \in Openable}}
      \cup {t.args[2] : t \in {u \in K : u.op = "sig"}}
      \cup {t.args[2] : t \in {u \in K : u.op \in {"add", "addsk"} /\ Derivable(u.args[1], K)}}
      \cup {t.args[1] : t \in {u \in K : u.op \in {"add", "addsk"} /\ Derivable(u.args[2], K)}}

\* everything the terms of K can be taken apart into
RECURSIVE Analz(_)
Analz(K) == IF Opened(K) = K THEN K ELSE Analz(Opened(K))

Learns(K, t) == Derivable(t, Analz(K))

\* the terms of a run: the wallet keys, what generate derives from the rng
SymChallengerKey == Atom("c")
SymAcceptorKey == Atom("b")
SymPk(x) == Term("pk", <<x>>)
SymSer(p) == Term("ser", <<p>>)
SymHex(t) == Term("hex", <<t>>)
SymCombine(p, q) == Term("add", <<p, q>>)
SymPubkeyHash(p) == Term("hash160", <<SymSer(p)>>)
SymFirstRankSecret(i) == Atom(IF i = 0 THEN "a0" ELSE "a1")
SymFirstRankPubkey(i) == SymPk(SymFirstRankSecret(i))
SymSecondRank(i) == Term("sha256", <<SymSer(SymFirstRankPubkey(i))>>)
SymThirdRank(i) == SymPk(SymSecondRank(i))
SymTweakedChallengerKey(pick) ==
    SymCombine(SymPk(SymChallengerKey), SymFirstRankPubkey(pick))
SymTweakedAcceptorKey(j) == SymCombine(SymPk(SymAcceptorKey), SymThirdRank(j))

\* the deposit transaction: its inputs signed by the wallet key, its output
\* paying to the hash of the tweaked key
SymDepositTx(pick) ==
    {Term("sig", <<SymChallengerKey, Atom("deposit sighash")>>),
     SymSer(SymPk(SymChallengerKey)),
     SymPubkeyHash(SymTweakedChallengerKey(pick))}

\* a public challenge file with the tweaked key in place of its hash
SymPublicChallengerData_TweakedKey(pick) ==
    {SymHex(SymSer(SymThirdRank(i))) : i \in CommitmentIndexes}
      \cup {SymHex(SymSer(SymPk(SymChallengerKey))),
            SymHex(SymSer(SymTweakedChallengerKey(pick))),
            Term("txid", <<SymPubkeyHash(SymTweakedChallengerKey(pick))>>)}

\* the fields of the public challenge file
SymPublicChallengerData(pick) ==
    {SymHex(SymSer(SymThirdRank(i))) : i \in CommitmentIndexes}
      \cup {SymHex(SymSer(SymPk(SymChallengerKey))),
            SymHex(SymPubkeyHash(SymTweakedChallengerKey(pick))),
            Term("proof", <<SymThirdRank(0), SymThirdRank(1), SymPk(SymChallengerKey),
                            SymPubkeyHash(SymTweakedChallengerKey(pick))>>),
            Term("txid", <<SymPubkeyHash(SymTweakedChallengerKey(pick))>>)}

\* the challenge script and the fields of the acceptor file
SymChallengeScript(j) ==
    Term("script", <<SymSer(SymTweakedAcceptorKey(j)), SymSer(SymPk(SymChallengerKey))>>)

SymAcceptorData(j) ==
    {SymHex(SymSer(SymThirdRank(i))) : i \in CommitmentIndexes}
      \cup {SymHex(SymPubkeyHash(SymTweakedAcceptorKey(j))),
            Term("proof", <<SymPubkeyHash(SymTweakedAcceptorKey(j)),
                            SymThirdRank(0), SymThirdRank(1)>>),
            SymHex(SymChallengeScript(j)),
            Term("sig", <<SymAcceptorKey, Atom("challenge sighash")>>),
            SymSer(SymPk(SymAcceptorKey))}

\* the completed challenge transaction: the witness of the deposit input holds
\* the signature of the tweaked key and the tweaked key
SymChallengeTx(pick, j) ==
    {Term("sig", <<Term("addsk", <<SymChallengerKey, SymFirstRankSecret(pick)>>),
                   Atom("challenge sighash")>>),
     SymSer(SymTweakedChallengerKey(pick)),
     Term("sig", <<SymAcceptorKey, Atom("challenge sighash")>>),
     SymSer(SymPk(SymAcceptorKey)),
     Term("sha256", <<SymChallengeScript(j)>>)}

\* the index of the first rank commitment the private file records as selected
SelectedIndex ==
    CHOOSE i \in CommitmentIndexes :
        files.private[1].first_rank_commitments[i]
            = files.private[1].selected_first_rank_commitment

\* the index the Acceptor selected
AcceptedIndex == cmd.selected_commitment

\* the Challenger's complete-challenge got as far as broadcasting
Broadcasting ==
    cmd.name = "complete" /\ "broadcast_deposit" \in {cmd.log[k] : k \in 1..Len(cmd.log)}

\* what the Acceptor holds: its key, the public challenge file, its own file,
\* and the transactions once the Challenger sends them
AcceptorKnows ==
    {SymAcceptorKey}
      \cup (IF files.public # None THEN SymPublicChallengerData(SelectedIndex) ELSE {})
      \cup (IF files.acceptor # None THEN SymAcceptorData(AcceptedIndex) ELSE {})
      \cup (IF Broadcasting THEN SymDepositTx(SelectedIndex) ELSE {})
      \cup (IF Broadcasting /\ files.acceptor # None /\ cmd.log = CompleteSteps
            THEN SymChallengeTx(SelectedIndex, AcceptedIndex) ELSE {})

\* C13: until the Challenger completes, the Acceptor can derive from the
\* public challenge file (and all else it holds) neither a first rank secret
\* nor a first rank public key, so it cannot tell which one was selected; and
\* the secret of the first rank commitment that was not selected can never be
\* derived from the public files and the transactions.
C13_FirstRankHiddenFromAcceptor ==
    (files.public # None /\ files.private # None) =>
        /\ ~Broadcasting =>
              \A i \in CommitmentIndexes :
                 /\ ~Learns(AcceptorKnows, SymFirstRankSecret(i))
                 /\ ~Learns(AcceptorKnows, SymFirstRankPubkey(i))
        /\ ~Learns(AcceptorKnows, SymFirstRankSecret(1 - SelectedIndex))

\* the Acceptor holds the public file and its own, the Challenger has not
\* completed; and a run in which both transactions were sent
C13_Witness ==
    /\ cmd.name = "accept" /\ cmd.result.ok /\ files.private # None
    /\ Learns(AcceptorKnows, SymThirdRank(SelectedIndex))
    /\ Learns(AcceptorKnows, SymPubkeyHash(SymTweakedChallengerKey(SelectedIndex)))

(***************************************************************************)
(* Secrets and the files                                                   *)
(***************************************************************************)
\* the first rank secrets as the private file records them, and the second
\* rank secrets derived from them
FirstRankSecretStrings ==
    {files.private[1].first_rank_commitments[i] : i \in CommitmentIndexes}
        \cup {files.private[1].selected_first_rank_commitment}

SecondRankSecretStrings ==
    {HexEncode(SecretKey_secret_bytes(SecondRankOf(FirstRankCommitment_from_str(str).val).val)) :
        str \in FirstRankSecretStrings}

\* the strings in the fields of a public challenge file, and of an acceptor file
PublicChallengerStrings(data) ==
    {data.third_rank_commitments[i] : i \in CommitmentIndexes}
        \cup {data.challenger_pubkey, data.challenger_pubkey_hash}

AcceptorStrings(data) ==
    {data.third_rank_commitments[i] : i \in CommitmentIndexes}
        \cup {data.acceptor_pubkey_hash, data.challenge_output_witness_script}

\* C14: no field of the public challenge file or of the acceptor file is a
\* first rank secret or a second rank secret, and none decodes to one; the
\* first rank secrets are in the private challenger file only.
C14_NoSecretInPublicFiles ==
    (files.private # None /\ files.public # None) =>
        /\ PublicChallengerStrings(files.public[1])
              \cap (FirstRankSecretStrings \cup SecondRankSecretStrings) = {}
        /\ files.acceptor # None =>
              AcceptorStrings(files.acceptor[1])
                  \cap (FirstRankSecretStrings \cup SecondRankSecretStrings) = {}
        /\ \A i \in CommitmentIndexes :
              {SymFirstRankSecret(i), SymSecondRank(i)}
                  \cap Analz(SymPublicChallengerData(SelectedIndex)
                                \cup SymAcceptorData(AcceptedIndex)) = {}

\* all three files are written, the private one with both first rank secrets
C14_Witness ==
    /\ files.private # None /\ files.public # None /\ files.acceptor # None
    /\ \A i \in CommitmentIndexes :
          FirstRankCommitment_from_str(files.private[1].first_rank_commitments[i]).ok
    /\ Cardinality(SecondRankSecretStrings) > 0

(***************************************************************************)
(* The builder's operations called in any order: a TransactionBuilder      *)
(* holds a secret key and a context only, so a caller may call any         *)
(* operation at any time with the arguments it has                         *)
(***************************************************************************)
\* build_challenge_tx before any deposit transaction was built, on the
\* outpoint of one of the Challenger's UTXOs
BuildChallengeBeforeDeposit ==
    /\ commitments.ok
    /\ deposit = NotCalled
    /\ challenge = NotCalled
    /\ \E j \in CommitmentIndexes, lt \in 0..MaxLockTime, n \in 1..MaxUtxos, a \in Amounts :
          /\ challenge_args' = [third_rank_index |-> j, lock_time |-> lt,
                                previous_outputs |-> Prevouts(AcceptorFunding, n)]
          /\ challenge' = build_challenge_tx(acceptor_sk,
                              PublicKey_new(PublicKeyOf(challenger_sk)),
                              OutPoint_new(compute_txid(ChallengerFunding[1]), 0),
                              commitments.val.third_rank_commitments[j],
                              lt, a, Prevouts(AcceptorFunding, n), None, None)
    /\ UNCHANGED <<challenger_sk, acceptor_sk, commitments, selected, amount, deposit,
                   completed_with, completed, sweep, ledger, height, cli_vars, call, legacy>>

\* sweep_challenge_output_challenger before complete_challenge_tx, on the
\* unsigned transaction of the PSBT, then broadcast
SweepBeforeComplete ==
    /\ challenge.ok
    /\ completed = NotCalled
    /\ sweep = NoSweep
    /\ \E lt \in 0..MaxLockTime, fee \in Fees :
          \E res \in {sweep_challenge_output_challenger(challenger_sk,
                          challenge.val[2].unsigned_tx, challenge.val[1], lt, None, fee)} :
             Swept("challenger", challenger_sk, lt, fee, res,
                   IF res.ok THEN res.val ELSE <<>>)
    /\ UNCHANGED <<challenger_sk, acceptor_sk, commitments, selected, amount, deposit,
                   challenge_args, challenge, completed_with, completed, height, cli_vars, call, legacy>>

AnyOrderNext ==
    \/ Generate
    \/ PickFirstRank
    \/ BuildDeposit
    \/ BuildChallenge
    \/ BuildChallengeBeforeDeposit
    \/ CompleteChallenge
    \/ BroadcastDeposit
    \/ BroadcastChallenge
    \/ SweepBeforeComplete
    \/ SweepAcceptor
    \/ SweepChallenger
    \/ Tick

AnyOrderSpec == Init /\ [][AnyOrderNext]_vars

\* C15: an operation of the builder returns a transaction only when the
\* operations before it in the order build_deposit_transaction,
\* build_challenge_tx, complete_challenge_tx, sweep have returned theirs; a
\* call out of order returns none.
C15_OutOfOrderCallFails ==
    /\ challenge.ok => deposit.ok
    /\ completed.ok => challenge.ok
    /\ sweep.res.ok => completed.ok

(***************************************************************************)
(* Completing the challenge transaction                                    *)
(***************************************************************************)
\* complete-challenge called complete_challenge_tx; it returned a
\* transaction; it returned an error
CompleteTxCalled ==
    cmd.name = "complete" /\ "complete_challenge_tx" \in {cmd.log[k] : k \in 1..Len(cmd.log)}
CompleteTxReturned == CompleteTxCalled /\ cmd.log[Len(cmd.log)] # "complete_challenge_tx"
CompleteTxFailed == CompleteTxCalled /\ cmd.log[Len(cmd.log)] = "complete_challenge_tx"

\* the PSBT complete_challenge_tx was given, with the Challenger's signature added
CosignedPsbt ==
    LET selected_commitment ==
            FirstRankCommitment_from_str(
                cmd.given.private[1].selected_first_rank_commitment).val
    IN  sign_psbt_input(challenger_sk, cmd.given.acceptor[1].psbt, 0,
                        cmd.given.public[1].amount,
                        Some(DepositSigningKey(challenger_sk, selected_commitment).val))

EveryInputSatisfied ==
    /\ CosignedPsbt.ok
    /\ \A i \in 1..Len(CosignedPsbt.val.inputs) : InputFinalizable(CosignedPsbt.val, i)

CompleteRead ==
    /\ cmd.name = "complete"
    /\ cmd.given.public # None /\ cmd.given.private # None /\ cmd.given.acceptor # None

\* the steps of the last command
StepsTaken == {cmd.log[k] : k \in 1..Len(cmd.log)}

\* the two files given to complete-challenge carry different ids, or
\* different third rank commitments
IdsDiffer == cmd.given.public[1].id # cmd.given.acceptor[1].id
RecordedCommitmentsDiffer ==
    \E i \in CommitmentIndexes :
        cmd.given.public[1].third_rank_commitments[i]
            # cmd.given.acceptor[1].third_rank_commitments[i]

\* nothing was signed and nothing was sent
NothingSignedOrSent ==
    /\ StepsTaken \cap {"complete_challenge_tx", "broadcast_deposit", "broadcast_challenge"} = {}
    /\ Len(ledger) = 2 * MaxUtxos

\* C17: when the ids of the challenger and acceptor files differ, or the
\* third rank commitments the two files record differ, complete-challenge
\* ends with an error before it signs and before it broadcasts.
C17_MismatchStopsBeforeSigning ==
    (CompleteRead /\ (IdsDiffer \/ RecordedCommitmentsDiffer)) =>
        /\ ~cmd.result.ok
        /\ NothingSignedOrSent

\* the acceptor file given differs from the challenger's in the second
\* commitment only, with the same id and a proof that verifies
C17_Witness ==
    /\ CompleteRead
    /\ ~IdsDiffer
    /\ cmd.given.public[1].third_rank_commitments[0]
          = cmd.given.acceptor[1].third_rank_commitments[0]
    /\ cmd.given.public[1].third_rank_commitments[1]
          # cmd.given.acceptor[1].third_rank_commitments[1]
    /\ cmd.log[Len(cmd.log)] = "ensure_same_commitments"

(***************************************************************************)
(* Proofs are verified before anything is built, signed or sent            *)
(***************************************************************************)
\* the proof of the file the command was given verifies under the key the
\* file carries
GivenChallengerProofVerifies ==
    verify_ultra_honk(cmd.given.public[1].proof, cmd.given.public[1].vk)
GivenAcceptorProofVerifies ==
    verify_ultra_honk(cmd.given.acceptor[1].proof, cmd.given.acceptor[1].vk)

\* C18: accept-challenge builds and signs the challenge PSBT only after the
\* Challenger's proof has verified, and complete-challenge cosigns and
\* broadcasts only after the Acceptor's proof has verified; when the
\* verification fails the command ends in an error with no PSBT built, no
\* signature made, no file written and nothing broadcast.
C18_VerifiedBeforeSigning ==
    /\ (cmd.name = "accept" /\ cmd.given.public # None) =>
          /\ "build_challenge_tx" \in StepsTaken =>
                /\ GivenChallengerProofVerifies
                /\ "verify_challenger_proof" \in StepsTaken
          /\ ~GivenChallengerProofVerifies =>
                /\ ~cmd.result.ok
                /\ "build_challenge_tx" \notin StepsTaken
                /\ files.acceptor = None
                /\ Len(ledger) = 2 * MaxUtxos
    /\ CompleteRead =>
          /\ StepsTaken \cap {"complete_challenge_tx", "broadcast_deposit",
                              "broadcast_challenge"} # {} =>
                /\ GivenAcceptorProofVerifies
                /\ "verify_acceptor_proof" \in StepsTaken
          /\ ~GivenAcceptorProofVerifies =>
                /\ ~cmd.result.ok
                /\ NothingSignedOrSent

\* complete-challenge was given an acceptor file that matches the
\* challenger's but whose proof does not verify, and stopped there
C18_Witness ==
    /\ CompleteRead
    /\ ~IdsDiffer /\ ~RecordedCommitmentsDiffer
    /\ ~GivenAcceptorProofVerifies
    /\ cmd.log[Len(cmd.log)] = "verify_acceptor_proof"
    /\ cmd.result = Err("InvalidProof")

\* the public inputs accept-challenge passes to verify_challenger_proof, and
\* complete-challenge to verify_acceptor_proof
PassedChallengerInputs ==
    [H |-> ThirdRankPoints(ParseThirdRank(cmd.given.public[1].third_rank_commitments).val),
     PK |-> PublicKey_from_str(cmd.given.public[1].challenger_pubkey).val,
     ADDR |-> ParsePubkeyHash(cmd.given.public[1].challenger_pubkey_hash).val]

PassedAcceptorInputs ==
    [H |-> ThirdRankPoints(ParseThirdRank(cmd.given.public[1].third_rank_commitments).val),
     ADDR |-> HexDecode(cmd.given.acceptor[1].acceptor_pubkey_hash).val]

\* the command went past the step
WentPast(steps, step) ==
    /\ step \in StepsTaken
    /\ cmd.log[Len(cmd.log)] # step \/ (cmd.result.ok /\ cmd.log = steps)

\* C19: verify_challenger_proof succeeds only for a proof that is valid for
\* the third rank commitments, the public key and the public key hash passed
\* to it, and verify_acceptor_proof only for one valid for the public key hash
\* and the commitments passed to it.
C19_VerifiedForPassedInputs ==
    /\ (cmd.name = "accept" /\ WentPast(AcceptSteps, "verify_challenger_proof")) =>
          /\ GivenChallengerProofVerifies
          /\ cmd.given.public[1].proof.public_inputs = PassedChallengerInputs
    /\ (cmd.name = "complete" /\ WentPast(CompleteSteps, "verify_acceptor_proof")) =>
          /\ GivenAcceptorProofVerifies
          /\ cmd.given.acceptor[1].proof.public_inputs = PassedAcceptorInputs

(***************************************************************************)
(* Files and errors                                                        *)
(***************************************************************************)
\* C20: when create-challenge ends in an error it has written neither the
\* public nor the private challenger file, and when accept-challenge ends in
\* an error it has not written the acceptor file.
C20_NoFileOnError ==
    /\ (cmd.name = "create" /\ ~cmd.result.ok) =>
          files.public = None /\ files.private = None
    /\ (cmd.name = "accept" /\ ~cmd.result.ok) => files.acceptor = None

\* what does hold of C20: a failed accept-challenge wrote no file, and a
\* failed create-challenge wrote no private file
C20_NoFileOnErrorButPublic ==
    /\ (cmd.name = "create" /\ ~cmd.result.ok) => files.private = None
    /\ (cmd.name = "accept" /\ ~cmd.result.ok) => files.acceptor = None

\* accept-challenge failed at its last step, the write
C20_Witness ==
    /\ cmd.name = "accept"
    /\ ~cmd.result.ok
    /\ cmd.log = AcceptSteps
    /\ files.acceptor = None

(***************************************************************************)
(* The broadcasts of complete-challenge                                    *)
(***************************************************************************)
\* the transactions the chain holds beyond the wallets' funding
Broadcast == SubSeq(ledger, 2 * MaxUtxos + 1, Len(ledger))

\* the position of a step in the steps of the last command, 0 when not taken
StepAt(step) ==
    IF step \in StepsTaken THEN CHOOSE k \in 1..Len(cmd.log) : cmd.log[k] = step ELSE 0

\* the deposit transaction of the private file complete-challenge was given
GivenDepositTx == cmd.given.private[1].deposit_transaction

\* C21: when complete-challenge ends in an error, it has left no transaction
\* on the network.
C21_NoBroadcastOnError ==
    (cmd.name = "complete" /\ ~cmd.result.ok) => Broadcast = <<>>

\* what does hold of C21: an error before the broadcasts leaves nothing on
\* the network, and a failed deposit broadcast leaves nothing either
C21_NoBroadcastOnEarlierError ==
    (cmd.name = "complete" /\ ~cmd.result.ok /\ "broadcast_challenge" \notin StepsTaken) =>
        Broadcast = <<>>

\* the deposit broadcast was refused and complete-challenge ended there
C21_Witness ==
    /\ cmd.name = "complete"
    /\ ~cmd.result.ok
    /\ cmd.log[Len(cmd.log)] = "broadcast_deposit"
    /\ Broadcast = <<>>

\* C22: complete-challenge submits the deposit transaction before the
\* challenge transaction, and submits the challenge transaction only when the
\* deposit broadcast succeeded.
C22_DepositBroadcastFirst ==
    (cmd.name = "complete" /\ "broadcast_challenge" \in StepsTaken) =>
        /\ StepAt("broadcast_deposit") > 0
        /\ StepAt("broadcast_deposit") < StepAt("broadcast_challenge")
        /\ Len(Broadcast) >= 1
        /\ Broadcast[1] = GivenDepositTx
        /\ cmd.result.ok => (Len(Broadcast) = 2 /\ Broadcast[2] # GivenDepositTx)

\* both transactions are on the chain, the deposit first; the challenge
\* transaction spends the deposit's output 0
C22_Witness ==
    /\ cmd.name = "complete"
    /\ cmd.result.ok
    /\ Len(Broadcast) = 2
    /\ Broadcast[1] = GivenDepositTx
    /\ Broadcast[2].input[1].previous_output = OutPoint_new(compute_txid(GivenDepositTx), 0)

(***************************************************************************)
(* The commitments count                                                   *)
(***************************************************************************)
\* C28: create-challenge rejects every commitments_count other than 2 with an
\* error before it fetches UTXOs, generates commitments or writes an artifact,
\* and the commitments of a run are exactly 2 of the first rank and 2 of the
\* third rank.
C28_CountEnforcedAtBoundary ==
    /\ (cmd.name = "create" /\ cmd.args.commitments_count # 2) =>
          /\ ~cmd.result.ok
          /\ cmd.log = <<"ensure_commitments_count">>
          /\ files = NoFiles
    /\ (cmd.name # "none" /\ cmd.args.commitments_count # 2) => files = NoFiles
    /\ files.public # None =>
          Cardinality(DOMAIN files.public[1].third_rank_commitments) = 2
    /\ files.private # None =>
          Cardinality(DOMAIN files.private[1].first_rank_commitments) = 2

\* a count of 3 was rejected at the first step
C28_Witness ==
    /\ cmd.name = "create"
    /\ cmd.args.commitments_count = 3
    /\ cmd.result = Err("OP_RAND currently only supports 2 commitments")
    /\ cmd.log = <<"ensure_commitments_count">>

(***************************************************************************)
(* Direct calls of the transaction builder: every public method on its own *)
(* with arguments a caller may pass, the optional ones given and not given *)
(***************************************************************************)
\* the secret keys of the builders called, and the amounts and fees passed
CallKeys == {2, 5}
CallAmounts == {1, 2}
CallFees == {0, 1, 5}
OptionalAmounts == {None, Some(1)}
\* no key, a compressed key, an uncompressed key
OptionalKeys == {None, Some(PublicKey_new(4)), Some([compressed |-> FALSE, inner |-> 4])}

\* the UTXOs of a key, and the lists of previous outputs a caller may pass:
\* the first n of them, and all of them in the other order
FundingOf(pk) == [k \in 1..MaxUtxos |-> FundingTx(pk, k)]
PreviousOutputsOf(pk) ==
    {Prevouts(FundingOf(pk), n) : n \in 0..MaxUtxos}
    \cup {[k \in 1..MaxUtxos |-> Prevouts(FundingOf(pk), MaxUtxos)[MaxUtxos + 1 - k]]}

\* the builder's own public key as a bitcoin key
OwnKey(secret_key) == PublicKey_new(PublicKeyOf(secret_key))

\* the p2wpkh script of a key that has one
P2wpkhOf(key) == create_p2wpkh_script(key).val

Called(name, args, result) ==
    /\ call' = [name |-> name, args |-> args, result |-> result]
    /\ UNCHANGED <<challenger_sk, acceptor_sk, run_vars, ledger, height, cli_vars, legacy>>

CallBuildDeposit ==
    /\ call.name = "none"
    /\ \E secret_key \in CallKeys, c \in RngKeys, deposit_amount \in CallAmounts,
          change_amount \in OptionalAmounts, change_pubkey \in OptionalKeys :
          \E previous_outputs \in PreviousOutputsOf(PublicKeyOf(secret_key)) :
             Called("build_deposit_transaction",
                    [secret_key |-> secret_key,
                     first_rank_commitment |-> FirstRankCommitment(c),
                     previous_outputs |-> previous_outputs,
                     deposit_amount |-> deposit_amount,
                     change_amount |-> change_amount, change_pubkey |-> change_pubkey],
                    build_deposit_transaction(secret_key, FirstRankCommitment(c),
                        previous_outputs, deposit_amount, change_amount, change_pubkey))

\* an outpoint to stand for the deposit output
SomeDepositOutpoint == OutPoint_new(compute_txid(ChallengerFunding[1]), 7)

CallBuildChallenge ==
    /\ call.name = "none"
    /\ \E secret_key \in CallKeys, challenger \in ChallengerKeys, h \in Points,
          lock_time \in 0..MaxLockTime, amount_sat \in CallAmounts,
          change_amount \in OptionalAmounts, change_pubkey \in OptionalKeys :
          \E previous_outputs \in PreviousOutputsOf(PublicKeyOf(secret_key)) :
             Called("build_challenge_tx",
                    [secret_key |-> secret_key,
                     challenger_pubkey |-> OwnKey(challenger),
                     deposit_outpoint |-> SomeDepositOutpoint,
                     third_rank_commitment |-> [public_key |-> h],
                     lock_time |-> lock_time, amount |-> amount_sat,
                     previous_outputs |-> previous_outputs,
                     change_amount |-> change_amount, change_pubkey |-> change_pubkey],
                    build_challenge_tx(secret_key, OwnKey(challenger), SomeDepositOutpoint,
                        [public_key |-> h], lock_time, amount_sat, previous_outputs,
                        change_amount, change_pubkey))

\* a challenge the two wallets made together: the Challenger with first rank
\* commitment i of those generated from rnd, the Acceptor with third rank
\* commitment j; an Err when one of the builders' calls fails
GivenChallenge(rnd, i, j, lock_time) ==
    LET generated == Commitments_generate(rnd)
        deposit_tx ==
            IF generated.ok
            THEN build_deposit_transaction(challenger_sk,
                     generated.val.first_rank_commitments[i],
                     Prevouts(ChallengerFunding, 1), 1, None, None)
            ELSE generated
        built ==
            IF deposit_tx.ok
            THEN build_challenge_tx(acceptor_sk, OwnKey(challenger_sk),
                     OutPoint_new(compute_txid(deposit_tx.val), 0),
                     generated.val.third_rank_commitments[j], lock_time, 1,
                     Prevouts(AcceptorFunding, 1), None, None)
            ELSE deposit_tx
        signed ==
            IF built.ok
            THEN complete_challenge_tx(challenger_sk, built.val[2], 1, 0,
                                       generated.val.first_rank_commitments[i])
            ELSE built
    IN  IF ~signed.ok THEN Err(signed.err)
        ELSE Ok([challenge_script |-> built.val[1],
                 unsigned_tx |-> built.val[2].unsigned_tx,
                 completed |-> signed.val])

GivenChallenges ==
    {made.val : made \in
        {r \in {GivenChallenge(rnd, i, j, 1) :
                   rnd \in [CommitmentIndexes -> RngKeys], i \in CommitmentIndexes,
                   j \in CommitmentIndexes} : r.ok}}

\* the challenge transactions a caller may hand to a sweep: the completed
\* one, the unsigned one, and ones whose input 0 has one witness element
\* only, or a second element that is no public key
ChallengeTransactionsOf(given) ==
    {given.completed, given.unsigned_tx,
     SetWitness(given.completed, 0, <<given.completed.input[1].witness[1]>>),
     SetWitness(given.completed, 0,
                <<given.completed.input[1].witness[1], BytesItem(<<9, 9>>)>>)}

CallSweepAcceptor ==
    /\ call.name = "none"
    /\ \E secret_key \in CallKeys, given \in GivenChallenges,
          recipient_pubkey \in OptionalKeys, fee \in CallFees :
          \E challenge_transaction \in ChallengeTransactionsOf(given) :
             Called("sweep_challenge_output_acceptor",
                    [secret_key |-> secret_key,
                     challenge_transaction |-> challenge_transaction,
                     challenger_pubkey |-> OwnKey(challenger_sk),
                     witness_script |-> given.challenge_script,
                     recipient_pubkey |-> recipient_pubkey, fee |-> fee],
                    sweep_challenge_output_acceptor(secret_key, challenge_transaction,
                        OwnKey(challenger_sk), given.challenge_script, recipient_pubkey, fee))

CallSweepChallenger ==
    /\ call.name = "none"
    /\ \E secret_key \in CallKeys, given \in GivenChallenges, lock_time \in 0..MaxLockTime,
          recipient_pubkey \in OptionalKeys, fee \in CallFees :
          \E challenge_transaction \in ChallengeTransactionsOf(given) :
             Called("sweep_challenge_output_challenger",
                    [secret_key |-> secret_key,
                     challenge_transaction |-> challenge_transaction,
                     witness_script |-> given.challenge_script,
                     lock_time |-> lock_time,
                     recipient_pubkey |-> recipient_pubkey, fee |-> fee],
                    sweep_challenge_output_challenger(secret_key, challenge_transaction,
                        given.challenge_script, lock_time, recipient_pubkey, fee))

\* the UTXO lists a server may answer with: up to MaxListLen UTXOs of values
\* up to MaxValue, a zero value included, each with its own outpoint
MaxListLen == 3
MaxValue == 3
UtxoLists ==
    UNION {{[k \in 1..n |-> [txid |-> k, vout |-> 0, value |-> values[k]]] :
               values \in [1..n -> 0..MaxValue]} : n \in 0..MaxListLen}

CallSelectUtxos ==
    /\ call.name = "none"
    /\ \E utxos \in UtxoLists, amount_sat \in 0..(MaxListLen * MaxValue + 1) :
          Called("select_utxos", [utxos |-> utxos, amount |-> amount_sat],
                 select_utxos(utxos, amount_sat))

\* u64: its largest value, scaled down, and the two builds of its arithmetic:
\* with overflow checks an overflow panics, without them it wraps
Builds == {"checked", "wrapping"}

u64_add(a, b, build) ==
    IF a + b <= U64_MAX THEN Ok(a + b)
    ELSE IF build = "checked" THEN Err("panic: attempt to add with overflow")
    ELSE Ok((a + b) % (U64_MAX + 1))

u64_sub(a, b, build) ==
    IF a >= b THEN Ok(a - b)
    ELSE IF build = "checked" THEN Err("panic: attempt to subtract with overflow")
    ELSE Ok((a - b + U64_MAX + 1) % (U64_MAX + 1))

\* Iterator::sum::<u64> over the values of the first n UTXOs
RECURSIVE u64_sum(_, _, _)
u64_sum(utxos, n, build) ==
    IF n = 0 THEN Ok(0)
    ELSE LET head == u64_sum(utxos, n - 1, build)
         IN  IF ~head.ok THEN head ELSE u64_add(head.val, utxos[n].value, build)

\* a change taken without the fees
ChangeAmount_FeesKept(inputs_total, amount_sat, fees, build) ==
    u64_sub(inputs_total, amount_sat, build)

\* inputs_sum - amount - FEES (run, 185)
ChangeAmount(inputs_total, amount_sat, fees, build) ==
    LET less_amount == u64_sub(inputs_total, amount_sat, build)
    IN  IF ~less_amount.ok THEN less_amount ELSE u64_sub(less_amount.val, fees, build)

\* how create-challenge funds the deposit (run, 126, 184-214), in u64
\* arithmetic and for the values FEES and MIN_CHANGE may have: the UTXOs
\* selected, the change amount and the deposit transaction; ChangeOf is the
\* same change for amounts far below the width
FundDeposit(private_key, utxos, amount_sat, fees, min_change, build) ==
    LET target == u64_add(amount_sat, fees, build)
        selected_utxos == IF target.ok THEN select_utxos(utxos, target.val) ELSE NotCalled
        inputs_total == IF selected_utxos.ok
                      THEN u64_sum(selected_utxos.val, Len(selected_utxos.val), build)
                      ELSE NotCalled
        change_amount == IF inputs_total.ok
                         THEN ChangeAmount(inputs_total.val, amount_sat, fees, build)
                         ELSE NotCalled
        change == IF change_amount.val < min_change THEN None
                  ELSE Some(change_amount.val)
    IN  [selected_utxos |-> selected_utxos,
         underflow |-> inputs_total.ok /\ inputs_total.val < amount_sat + fees,
         change_amount |-> change_amount,
         deposit_tx |-> IF change_amount.ok
                        THEN build_deposit_transaction(private_key, FirstRankCommitment(2),
                                 PrevoutsOf(selected_utxos.val), amount_sat, change, None)
                        ELSE NotCalled]

CallFundDeposit ==
    /\ call.name = "none"
    /\ \E utxos \in UtxoLists, amount_sat \in (0..MaxValue) \cup {U64_MAX - 1, U64_MAX},
          fees \in {1, 2}, min_change \in {1, 3}, build \in Builds :
          Called("fund_deposit",
                 [utxos |-> utxos, amount |-> amount_sat, fees |-> fees,
                  min_change |-> min_change, build |-> build],
                 FundDeposit(challenger_sk, utxos, amount_sat, fees, min_change, build))

WideListLen == 2
\* UTXO lists with values up to the width of u64
WideUtxoLists ==
    UNION {{[k \in 1..n |-> [txid |-> k, vout |-> 0, value |-> values[k]]] :
               values \in [1..n -> (0..MaxValue) \cup {U64_MAX - 1, U64_MAX}]} :
           n \in 0..WideListLen}

\* how accept-challenge funds the challenge transaction (run, 143-144,
\* 158-190), in u64 arithmetic and for the values FEES and MIN_CHANGE may
\* have: the UTXOs selected, the change amount and the PSBT
FundChallenge(private_key, utxos, amount_sat, fees, min_change, build) ==
    LET target == u64_add(amount_sat, fees, build)
        selected_utxos == IF target.ok THEN select_utxos(utxos, target.val) ELSE NotCalled
        inputs_total == IF selected_utxos.ok
                      THEN u64_sum(selected_utxos.val, Len(selected_utxos.val), build)
                      ELSE NotCalled
        change_amount == IF inputs_total.ok
                         THEN ChangeAmount(inputs_total.val, amount_sat, fees, build)
                         ELSE NotCalled
        change == IF change_amount.val < min_change THEN None
                  ELSE Some(change_amount.val)
        built == IF change_amount.ok
                 THEN build_challenge_tx(private_key,
                          PublicKey_new(PublicKeyOf(challenger_sk)), SomeDepositOutpoint,
                          [public_key |-> Generator], 0, amount_sat,
                          PrevoutsOf(selected_utxos.val), change, None)
                 ELSE NotCalled
    IN  [selected_utxos |-> selected_utxos,
         change_amount |-> change_amount,
         psbt |-> IF built.ok THEN Ok(built.val[2]) ELSE built]

CallFundChallenge ==
    /\ call.name = "none"
    /\ \E utxos \in WideUtxoLists,
          amount_sat \in (0..MaxValue) \cup {U64_MAX \div 2, U64_MAX \div 2 + 1,
                                             U64_MAX - 1, U64_MAX},
          fees \in {1, 2}, min_change \in {1, 3}, build \in Builds :
          Called("fund_challenge",
                 [utxos |-> utxos, amount |-> amount_sat, fees |-> fees,
                  min_change |-> min_change, build |-> build],
                 FundChallenge(acceptor_sk, utxos, amount_sat, fees, min_change, build))

CallNext ==
    \/ CallBuildDeposit
    \/ CallBuildChallenge
    \/ CallSweepAcceptor
    \/ CallSweepChallenger
    \/ CallSelectUtxos
    \/ CallFundDeposit
    \/ CallFundChallenge

CallSpec == Init /\ [][CallNext]_vars

(***************************************************************************)
(* The op-rand crate: its TransactionBuilder and key combination           *)
(***************************************************************************)
\* create_txin: the default TxIn spending output vout of tx
Legacy_create_txin(tx, vout) == TxIn_default(OutPoint_new(compute_txid(tx), vout))

combine_public_keys(pk_base, pk_tweak) ==
    LET pk_combined == PublicKey_combine(pk_base.inner, pk_tweak.inner)
    IN  IF ~pk_combined.ok THEN Err("Error combining public key")
        ELSE Ok(PublicKey_new(pk_combined.val))

\* add_tweak takes the key by value and returns the tweaked key; the function
\* drops what it returns and builds its result from the base key
combine_secret_keys(pk_base, pk_tweak) ==
    LET combined_pk_inner == pk_base
        tweaked == SecretKey_add_tweak(combined_pk_inner, pk_tweak)
    IN  IF ~tweaked.ok THEN tweaked ELSE Ok(combined_pk_inner)

create_init_output_script(pubkey_a, pubkey_a1) ==
    LET combined_pubkey == combine_public_keys(pubkey_a, pubkey_a1)
    IN  IF ~combined_pubkey.ok THEN combined_pubkey
        ELSE create_p2wpkh_script(combined_pubkey.val)

create_close_output_script(pubkey_a, pubkey_b, pubkey_h1, lock_time) ==
    LET combined_b_h1 == combine_public_keys(pubkey_b, pubkey_h1)
    IN  IF ~combined_b_h1.ok THEN combined_b_h1
        ELSE Ok(new_p2wsh(WScriptHash(
                 create_challenge_p2wsh_script(pubkey_a, combined_b_h1.val, lock_time))))

TransactionBuilder_from_pubkey(public_key) ==
    [public_key |-> public_key, deposit_txin |-> None]

\* a setter that keeps a deposit input already stored
set_deposit_txin_KeepsFirst(self, txin) ==
    IF self.deposit_txin = None THEN [self EXCEPT !.deposit_txin = Some(txin)] ELSE self

set_deposit_txin(self, txin) == [self EXCEPT !.deposit_txin = Some(txin)]

\* the builder after the call and what the call returns
build_and_set_deposit_tx(self, input, amount_sat) ==
    LET script == create_p2wpkh_script(self.public_key)
        dep_tx == create_tx(input, <<TxOut(amount_sat, script.val)>>, None)
    IN  IF ~script.ok THEN [self |-> self, result |-> script]
        ELSE [self |-> [self EXCEPT !.deposit_txin = Some(Legacy_create_txin(dep_tx, 0))],
              result |-> Ok(dep_tx)]

build_initial_tx(self, tweak_value, amount_sat) ==
    LET script == create_init_output_script(self.public_key, tweak_value)
    IN  IF self.deposit_txin = None THEN Err("NoDepositTxStored")
        ELSE IF ~script.ok THEN script
        ELSE Ok(create_tx(<<self.deposit_txin[1]>>, <<TxOut(amount_sat, script.val)>>,
                          None))

build_closing_tx(self, input_from_initial, challenger_pubkey, tweak_value, amount_sat, lock_time) ==
    LET script == create_close_output_script(challenger_pubkey, self.public_key,
                                             tweak_value, lock_time)
    IN  IF self.deposit_txin = None THEN Err("NoDepositTxStored")
        ELSE IF ~script.ok THEN script
        ELSE Ok(Psbt_from_unsigned_tx(
                 create_tx(<<input_from_initial, self.deposit_txin[1]>>,
                           <<TxOut(amount_sat, script.val)>>, None)))

\* the inputs and keys the builder is called with
LegacyTxIns ==
    {Legacy_create_txin(FundingTx(PublicKeyOf(challenger_sk), k), 0) : k \in 1..MaxUtxos}
\* tweaks: one that combines with the builder's key and its negation, which
\* does not
LegacyKeys ==
    {PublicKey_new(2), PublicKey_new(CurveOrder - PublicKeyOf(challenger_sk))}

\* a call of the builder: the builder it leaves, the calls made and the deposit
\* input stored last, and the call recorded
LegacyCalled(name, args, result, self, stored) ==
    /\ call' = [name |-> name, args |-> args, result |-> result]
    /\ legacy' = [builder |-> Some(self), called |-> legacy.called \cup {name},
                  stored |-> stored]
    /\ UNCHANGED <<challenger_sk, acceptor_sk, run_vars, ledger, height, cli_vars>>

LegacyFromPubkey ==
    /\ legacy.builder = None
    /\ \E public_key \in {OwnKey(challenger_sk),
                          [compressed |-> FALSE, inner |-> PublicKeyOf(challenger_sk)]} :
          LegacyCalled("from_pubkey", [public_key |-> public_key], Ok(<<>>),
                       TransactionBuilder_from_pubkey(public_key), None)

LegacySetDepositTxin ==
    /\ legacy.builder # None
    /\ \E txin \in LegacyTxIns :
          LegacyCalled("set_deposit_txin", [txin |-> txin], Ok(<<>>),
                       set_deposit_txin(legacy.builder[1], txin), Some(txin))

LegacyBuildAndSetDepositTx ==
    /\ legacy.builder # None
    /\ \E txin \in LegacyTxIns, amount_sat \in CallAmounts :
          \E done \in {build_and_set_deposit_tx(legacy.builder[1], <<txin>>, amount_sat)} :
             LegacyCalled("build_and_set_deposit_tx",
                          [input |-> <<txin>>, amount |-> amount_sat],
                          done.result, done.self,
                          IF done.result.ok
                          THEN Some(Legacy_create_txin(done.result.val, 0))
                          ELSE legacy.stored)

LegacyBuildInitialTx ==
    /\ legacy.builder # None
    /\ \E tweak_value \in LegacyKeys, amount_sat \in CallAmounts :
          LegacyCalled("build_initial_tx",
                       [tweak_value |-> tweak_value, amount |-> amount_sat],
                       build_initial_tx(legacy.builder[1], tweak_value, amount_sat),
                       legacy.builder[1], legacy.stored)

LegacyBuildClosingTx ==
    /\ legacy.builder # None
    /\ \E input_from_initial \in LegacyTxIns, tweak_value \in LegacyKeys,
          amount_sat \in CallAmounts, lock_time \in 0..MaxLockTime :
          LegacyCalled("build_closing_tx",
                       [input_from_initial |-> input_from_initial,
                        challenger_pubkey |-> OwnKey(acceptor_sk),
                        tweak_value |-> tweak_value, amount |-> amount_sat,
                        lock_time |-> lock_time],
                       build_closing_tx(legacy.builder[1], input_from_initial,
                           OwnKey(acceptor_sk), tweak_value, amount_sat, lock_time),
                       legacy.builder[1], legacy.stored)

LegacyCombineSecretKeys ==
    /\ call.name = "none"
    /\ \E pk_base \in SecretKeys, pk_tweak \in SecretKeys :
          /\ call' = [name |-> "combine_secret_keys",
                      args |-> [pk_base |-> pk_base, pk_tweak |-> pk_tweak],
                      result |-> combine_secret_keys(pk_base, pk_tweak)]
          /\ UNCHANGED <<challenger_sk, acceptor_sk, run_vars, ledger, height, cli_vars,
                         legacy>>

LegacyNext ==
    \/ LegacyFromPubkey
    \/ LegacySetDepositTxin
    \/ LegacyBuildAndSetDepositTx
    \/ LegacyBuildInitialTx
    \/ LegacyBuildClosingTx
    \/ LegacyCombineSecretKeys

LegacySpec == Init /\ [][LegacyNext]_vars

\* the change output a builder adds for a change amount and an optional key
ChangeOutputs(secret_key, change_amount, change_pubkey) ==
    IF change_amount = None THEN <<>>
    ELSE <<TxOut(change_amount[1], P2wpkhOf(unwrap_or(change_pubkey, OwnKey(secret_key))))>>

\* the challenge script build_challenge_tx is to make for its arguments
ExpectedChallengeScript(args) ==
    create_challenge_p2wsh_script(args.challenger_pubkey,
        PublicKey_new((PublicKeyOf(args.secret_key) + args.third_rank_commitment.public_key)
                      % CurveOrder),
        args.lock_time)

\* C23: build_challenge_tx returns a transaction whose output 0 holds exactly
\* twice the amount under p2wsh of the challenge script of the challenger key,
\* the acceptor key plus the third rank commitment, and the lock time, and
\* returns that script in plain; there is one more output, of change_amount to
\* change_pubkey or else to the Acceptor's own key, exactly when change_amount
\* is given.
C23_ChallengeTxOutputs ==
    (call.name = "build_challenge_tx" /\ call.result.ok) =>
        LET challenge_script == call.result.val[1]
            tx == call.result.val[2].unsigned_tx
        IN  /\ challenge_script = ExpectedChallengeScript(call.args)
            /\ tx.output =
                  <<TxOut(2 * call.args.amount, new_p2wsh(WScriptHash(challenge_script)))>>
                  \o ChangeOutputs(call.args.secret_key, call.args.change_amount,
                                   call.args.change_pubkey)

\* a challenge transaction with change to the Acceptor's own key
C23_Witness ==
    /\ call.name = "build_challenge_tx"
    /\ call.result.ok
    /\ call.args.change_amount # None
    /\ call.args.change_pubkey = None
    /\ Len(call.result.val[2].unsigned_tx.output) = 2
    /\ call.result.val[2].unsigned_tx.output[1].value = 2 * call.args.amount

\* the witness a builder's key makes for p2wpkh input k of a transaction
\* that spends an output of the given value
SignedBy(secret_key, tx, k, value, witness) ==
    /\ Len(witness) = 2
    /\ witness[1].t = "sig"
    /\ witness[1].sighash_type = SIGHASH_ALL
    /\ verify_ecdsa(SegwitSighash(tx, k - 1,
                        p2wpkh_script_code(P2wpkhOf(OwnKey(secret_key))), value),
                    witness[1].sig, PublicKeyOf(secret_key))
    /\ witness[2] = BytesItem(PublicKey_serialize(PublicKeyOf(secret_key)))

\* C24: build_deposit_transaction returns a transaction with one input per
\* previous output in the given order, each signed with the builder's key
\* (witness [signature, builder public key]); output 0 holds deposit_amount
\* under p2wpkh of the builder key plus the first rank public key; a second
\* output of change_amount exists exactly when change_amount is given, paid to
\* change_pubkey or else to the builder's own key.
C24_DepositTxShape ==
    (call.name = "build_deposit_transaction" /\ call.result.ok) =>
        LET tx == call.result.val
            previous_outputs == call.args.previous_outputs
            challenge_pubkey == (PublicKeyOf(call.args.secret_key)
                                 + call.args.first_rank_commitment.public_key) % CurveOrder
        IN  /\ Len(tx.input) = Len(previous_outputs)
            /\ \A k \in 1..Len(previous_outputs) :
                  /\ tx.input[k].previous_output = previous_outputs[k][1]
                  /\ SignedBy(call.args.secret_key, tx, k, previous_outputs[k][2],
                              tx.input[k].witness)
            /\ tx.output =
                  <<TxOut(call.args.deposit_amount,
                          new_p2wpkh(Hash160(PublicKey_serialize(challenge_pubkey))))>>
                  \o ChangeOutputs(call.args.secret_key, call.args.change_amount,
                                   call.args.change_pubkey)

\* a deposit over two previous outputs given in the other order, with change
\* to a key of the caller's
C24_Witness ==
    /\ call.name = "build_deposit_transaction"
    /\ call.result.ok
    /\ Len(call.args.previous_outputs) = 2
    /\ call.args.previous_outputs[1][1].txid.lock_time = 2
    /\ call.args.change_amount # None
    /\ call.args.change_pubkey # None
    /\ Len(call.result.val.output) = 2

\* the two sweeps
IsSweep == call.name \in {"sweep_challenge_output_acceptor",
                          "sweep_challenge_output_challenger"}
CalledSweepTx == IF call.name = "sweep_challenge_output_acceptor"
           THEN call.result.val.tx ELSE call.result.val

\* C25: a sweep transaction, the Acceptor's or the Challenger's, has exactly
\* one input, which spends output 0 of the given challenge transaction, and
\* exactly one output, of the challenge output's value less the fee, paid to
\* recipient_pubkey or else to the sweeping builder's own key.
C25_SweepTxShape ==
    (IsSweep /\ call.result.ok) =>
        /\ Len(CalledSweepTx.input) = 1
        /\ CalledSweepTx.input[1].previous_output =
              OutPoint_new(compute_txid(call.args.challenge_transaction), 0)
        /\ CalledSweepTx.output =
              <<TxOut(call.args.challenge_transaction.output[1].value - call.args.fee,
                      P2wpkhOf(unwrap_or(call.args.recipient_pubkey,
                                         OwnKey(call.args.secret_key))))>>

\* a sweep of each party that pays a fee, one to a recipient and one to the
\* builder's own key
C25_Witness ==
    /\ IsSweep
    /\ call.result.ok
    /\ call.args.fee > 0
    /\ call.args.recipient_pubkey # None
    /\ CalledSweepTx.output[1].value = 1
C25_WitnessChallenger ==
    /\ call.name = "sweep_challenge_output_challenger"
    /\ call.result.ok
    /\ call.args.fee > 0
    /\ call.args.recipient_pubkey = None

\* C26: the witness of the Acceptor's sweep is exactly [signature, push of 1,
\* witness script], the signature made with the tweaked acceptor key; the
\* witness of the Challenger's sweep is exactly [signature, empty push,
\* witness script], the signature made with the builder's own key.
C26_SweepWitness ==
    (IsSweep /\ call.result.ok) =>
        LET sighash == SegwitSighash(CalledSweepTx, 0, call.args.witness_script,
                                     call.args.challenge_transaction.output[1].value)
            witness == CalledSweepTx.input[1].witness
        IN  IF call.name = "sweep_challenge_output_acceptor"
            THEN LET witness_pubkey == PublicKey_from_slice(
                         call.args.challenge_transaction.input[1].witness[2].bytes).val
                     second_rank_commitment ==
                         (witness_pubkey + CurveOrder - call.args.challenger_pubkey.inner)
                         % CurveOrder
                     tweaked_secret_key ==
                         (call.args.secret_key
                          + Sha256(PublicKey_serialize(second_rank_commitment))) % CurveOrder
                 IN  witness = <<SigItem(sign_ecdsa(sighash, tweaked_secret_key)),
                                 BytesItem(<<1>>), BytesItem(call.args.witness_script)>>
            ELSE witness = <<SigItem(sign_ecdsa(sighash, call.args.secret_key)),
                             BytesItem(<<>>), BytesItem(call.args.witness_script)>>

\* the Acceptor's sweep with the key the OP_IF branch of the script names
C26_Witness ==
    /\ call.name = "sweep_challenge_output_acceptor"
    /\ call.result.ok
    /\ call.args.secret_key = acceptor_sk
    /\ push_key(PublicKey_new(call.result.val.tx.input[1].witness[1].sig.signer))
          = SubSeq(call.args.witness_script, 2, 4)
C26_WitnessChallenger ==
    /\ call.name = "sweep_challenge_output_challenger"
    /\ call.result.ok
    /\ call.result.val.input[1].witness[2] = BytesItem(<<>>)

\* the witness stack of input 0 of the challenge transaction a sweep was given
GivenStack == call.args.challenge_transaction.input[1].witness

\* no public key at element 1 of a stack
Malformed(stack) ==
    \/ Len(stack) < 2
    \/ stack[2].t # "bytes"
    \/ ~PublicKey_from_slice(stack[2].bytes).ok

\* a result that stands for a crash of the process
Panicked(result) ==
    /\ ~result.ok
    /\ result.err \in {"panic: witness index out of bounds", "panic: Amount subtraction",
                       "panic: index out of bounds", "panic: Amount multiplication error"}

\* C27: sweep_challenge_output_acceptor ends with an error value, not a crash,
\* whenever the witness stack of input 0 of the challenge transaction is
\* malformed: fewer than two elements, or no valid public key at element 1.
C27_MalformedWitnessIsError ==
    (/\ call.name = "sweep_challenge_output_acceptor"
     /\ call.args.fee <= call.args.challenge_transaction.output[1].value
     /\ Malformed(GivenStack)) =>
        ~call.result.ok /\ ~Panicked(call.result)

\* what does hold of C27: a stack of two elements or more whose element 1 is
\* no public key ends the sweep with the error InvalidPublicKey
C27_InvalidKeyIsError ==
    (/\ call.name = "sweep_challenge_output_acceptor"
     /\ call.args.fee <= call.args.challenge_transaction.output[1].value
     /\ Len(GivenStack) >= 2
     /\ Malformed(GivenStack)) =>
        \/ call.result = Err("InvalidPublicKey")
        \/ call.result = Err("UncompressedPublicKey") /\ call.args.recipient_pubkey # None

C27_Witness ==
    /\ call.name = "sweep_challenge_output_acceptor"
    /\ Len(GivenStack) >= 2
    /\ Malformed(GivenStack)
    /\ call.result = Err("InvalidPublicKey")

\* the total value of the first n UTXOs of a list
RECURSIVE TotalValue(_, _)
TotalValue(utxos, n) == IF n = 0 THEN 0 ELSE TotalValue(utxos, n - 1) + utxos[n].value

\* C29: select_utxos returns the shortest prefix of the UTXOs, in the given
\* order, whose total value is at least the amount, and returns an error
\* exactly when the total value of all of them is less than the amount.
C29_ShortestCoveringPrefix ==
    call.name = "select_utxos" =>
        LET utxos == call.args.utxos
            amount_sat == call.args.amount
        IN  /\ ~call.result.ok <=> TotalValue(utxos, Len(utxos)) < amount_sat
            /\ call.result.ok =>
                  \E n \in 0..Len(utxos) :
                     /\ call.result.val = SubSeq(utxos, 1, n)
                     /\ TotalValue(utxos, n) >= amount_sat
                     /\ \A m \in 0..(n - 1) : TotalValue(utxos, m) < amount_sat

\* a proper prefix was selected, the UTXO that follows it left out, and a
\* UTXO of value zero went in on the way
C29_Witness ==
    /\ call.name = "select_utxos"
    /\ call.result.ok
    /\ Len(call.result.val) = 2
    /\ Len(call.args.utxos) = 3
    /\ call.result.val[1].value = 0
C29_WitnessError ==
    /\ call.name = "select_utxos"
    /\ call.result = Err("Not enough UTXOs to cover the amount")
    /\ Len(call.args.utxos) > 0

\* the fee of the deposit transaction of a funding: the total value of its
\* inputs less the total value of its outputs
DepositFee ==
    TotalValue(call.result.selected_utxos.val, Len(call.result.selected_utxos.val))
    - SumValues(call.result.deposit_tx.val.output)

\* what C30 says of a funding for which select_utxos succeeded
ChangeAndFeeAsClaimed ==
    /\ ~call.result.underflow
    /\ call.result.change_amount.ok
    /\ call.result.deposit_tx.ok
    /\ IF call.result.change_amount.val >= call.args.min_change
       THEN /\ Len(call.result.deposit_tx.val.output) = 2
            /\ DepositFee = call.args.fees
       ELSE /\ Len(call.result.deposit_tx.val.output) = 1
            /\ DepositFee = call.args.fees + call.result.change_amount.val
            /\ DepositFee < call.args.fees + call.args.min_change

\* C30: in create-challenge, for every amount and UTXO list for which
\* select_utxos(utxos, amount + FEES) succeeds, inputs_sum - amount - FEES does
\* not underflow, and the fee of the deposit transaction is FEES when the
\* change amount is at least MIN_CHANGE and the change output present, and
\* FEES plus the change amount, below FEES + MIN_CHANGE, when it is left out.
C30_ChangeAndFee ==
    (call.name = "fund_deposit" /\ call.result.selected_utxos.ok) => ChangeAndFeeAsClaimed

\* what does hold of C30: the same, for the amounts and UTXO lists for which
\* neither amount + FEES nor the sum of the selected values exceeds u64
C30_ChangeAndFeeWithinU64 ==
    (/\ call.name = "fund_deposit"
     /\ call.result.selected_utxos.ok
     /\ call.args.amount + call.args.fees <= U64_MAX
     /\ TotalValue(call.result.selected_utxos.val, Len(call.result.selected_utxos.val))
           <= U64_MAX) =>
        ChangeAndFeeAsClaimed

\* a change below MIN_CHANGE and above zero was left to the fee
C30_Witness ==
    /\ call.name = "fund_deposit"
    /\ call.result.selected_utxos.ok
    /\ call.args.amount + call.args.fees <= U64_MAX
    /\ call.result.change_amount.ok
    /\ call.result.change_amount.val > 0
    /\ call.result.change_amount.val < call.args.min_change
    /\ call.result.deposit_tx.ok
    /\ Len(call.result.deposit_tx.val.output) = 1
C30_WitnessChange ==
    /\ call.name = "fund_deposit"
    /\ call.result.deposit_tx.ok
    /\ Len(call.result.deposit_tx.val.output) = 2
    /\ Len(call.result.selected_utxos.val) = 2

(***************************************************************************)
(* The PSBT the Challenger signs                                           *)
(***************************************************************************)
\* the PSBT of the acceptor file spends the published deposit outpoint with
\* input 0 and pays 2 * amount with output 0 to p2wsh of the script the
\* acceptor file declares, a challenge script with the Challenger's key and
\* the published locktime
AgreedTerms(psbt, public, acceptor) ==
    LET declared == HexDecode(acceptor.challenge_output_witness_script)
    IN  /\ psbt.unsigned_tx.input[1].previous_output = public.deposit_outpoint
        /\ psbt.unsigned_tx.output[1].value = 2 * public.amount
        /\ declared.ok
        /\ psbt.unsigned_tx.output[1].script_pubkey = new_p2wsh(WScriptHash(declared.val))
        /\ \E key \in Points :
              declared.val =
                  create_challenge_p2wsh_script(
                      PublicKey_new(PublicKeyOf(challenger_sk)),
                      PublicKey_new(key), public.locktime)

\* C31: complete-challenge signs input 0 only of a PSBT that matches the
\* agreed terms: whenever it reaches complete_challenge_tx, the PSBT it was
\* given spends the published deposit outpoint with input 0 and pays
\* 2 * amount with output 0 to p2wsh of the declared challenge script, which
\* holds the Challenger's key and the published locktime.
C31_SignsOnlyAgreedPsbt ==
    CompleteTxCalled =>
        AgreedTerms(cmd.given.acceptor[1].psbt, cmd.given.public[1],
                    cmd.given.acceptor[1])

\* C31, the part that holds: a PSBT taken from the acceptor file as
\* accept-challenge wrote it matches the agreed terms when it is signed.
C31_UnmodifiedPsbtAgrees ==
    (CompleteTxCalled /\ cmd.given.acceptor[1].psbt = files.acceptor[1].psbt) =>
        AgreedTerms(cmd.given.acceptor[1].psbt, cmd.given.public[1],
                    cmd.given.acceptor[1])
C31_Witness ==
    /\ CompleteTxReturned
    /\ cmd.given.acceptor[1].psbt = files.acceptor[1].psbt
    /\ cmd.result.ok

(***************************************************************************)
(* The artifacts of create-challenge and their use by complete-challenge   *)
(***************************************************************************)
\* the commitment complete-challenge parses from the private file it is given
PassedCommitment ==
    FirstRankCommitment_from_str(cmd.given.private[1].selected_first_rank_commitment)

\* the key a first-rank commitment tweaks the Challenger's key to
TweakedBy(commitment) ==
    PublicKey_combine(PublicKeyOf(challenger_sk), commitment.public_key)

\* C32: the first-rank commitment complete-challenge passes to
\* complete_challenge_tx is the one create-challenge locked the deposit output
\* with and hashed into the published challenger_pubkey_hash, and it is one of
\* the two stored in first_rank_commitments.
C32_SameCommitmentAcrossSteps ==
    CompleteTxCalled =>
        /\ PassedCommitment.ok
        /\ TweakedBy(PassedCommitment.val).ok
        /\ GivenDepositTx.output[1].script_pubkey =
              create_p2wpkh_script(
                  PublicKey_new(TweakedBy(PassedCommitment.val).val)).val
        /\ cmd.given.public[1].challenger_pubkey_hash =
              HexEncode(PubkeyHash(TweakedBy(PassedCommitment.val).val))
        /\ \E i \in CommitmentIndexes :
              cmd.given.private[1].first_rank_commitments[i] =
                  cmd.given.private[1].selected_first_rank_commitment
C32_Witness ==
    /\ CompleteTxReturned
    /\ cmd.result.ok
    /\ cmd.given.private[1].selected_first_rank_commitment =
          cmd.given.private[1].first_rank_commitments[1]
    /\ cmd.given.private[1].first_rank_commitments[0] #
          cmd.given.private[1].first_rank_commitments[1]

\* C33: the published deposit_outpoint is output 0 of the deposit transaction
\* of the private file, that output is the funding output and not the change,
\* its value is the published amount, and that amount is the value the
\* Challenger's signature of input 0 of the challenge transaction commits to.
C33_DepositOutpointIsFundingOutput ==
    /\ (files.public # None /\ files.private # None) =>
          LET deposit_tx == files.private[1].deposit_transaction
              funding == deposit_tx.output[1]
          IN  /\ files.public[1].deposit_outpoint =
                    OutPoint_new(compute_txid(deposit_tx), 0)
              /\ funding.script_pubkey #
                    create_p2wpkh_script(PublicKey_new(PublicKeyOf(challenger_sk))).val
              /\ funding.script_pubkey =
                    new_p2wpkh(HexDecode(files.public[1].challenger_pubkey_hash).val)
              /\ funding.value = files.public[1].amount
    /\ (cmd.name = "complete" /\ cmd.result.ok) =>
          /\ Len(Broadcast) = 2
          /\ Broadcast[2].input[1].witness[1].sig.msg.value =
                GivenDepositTx.output[1].value
          /\ Broadcast[2].input[1].witness[1].sig.msg.value = cmd.given.public[1].amount
C33_Witness ==
    /\ cmd.name = "complete"
    /\ cmd.result.ok
    /\ Len(GivenDepositTx.output) = 2
    /\ Broadcast[2].input[1].previous_output = cmd.given.public[1].deposit_outpoint

(***************************************************************************)
(* The fee of the challenge transaction                                    *)
(***************************************************************************)
\* total input value of the challenge transaction funded by the call (the
\* deposit output, of value amount, and the selected UTXOs) less its total
\* output value
ChallengeFee ==
    call.args.amount
    + TotalValue(call.result.selected_utxos.val, Len(call.result.selected_utxos.val))
    - SumValues(call.result.psbt.val.unsigned_tx.output)

\* C34: in accept-challenge, whenever select_utxos succeeds and a challenge
\* transaction is built, its total input value less its total output value is
\* never negative, and is FEES whenever the change output is present.
C34_ChallengeFeeNotNegative ==
    (/\ call.name = "fund_challenge"
     /\ call.result.selected_utxos.ok
     /\ call.result.psbt.ok) =>
        /\ call.result.psbt.val.unsigned_tx.output[1].value = 2 * call.args.amount
        /\ ChallengeFee >= 0
        /\ Len(call.result.psbt.val.unsigned_tx.output) = 2 =>
              ChallengeFee = call.args.fees
\* a change output is present; the sum of the selected values exceeds u64
C34_Witness ==
    /\ call.name = "fund_challenge"
    /\ call.result.psbt.ok
    /\ Len(call.result.psbt.val.unsigned_tx.output) = 2
    /\ Len(call.result.selected_utxos.val) = 2
C34_WitnessWrapped ==
    /\ call.name = "fund_challenge"
    /\ call.result.psbt.ok
    /\ call.args.build = "wrapping"
    /\ TotalValue(call.result.selected_utxos.val, Len(call.result.selected_utxos.val))
          > U64_MAX
C34_WitnessNoChange ==
    /\ call.name = "fund_challenge"
    /\ call.result.psbt.ok
    /\ Len(call.result.psbt.val.unsigned_tx.output) = 1
    /\ ChallengeFee > call.args.fees

(***************************************************************************)
(* The locktime of the Challenger's sweep                                  *)
(***************************************************************************)
\* the witness script of the acceptor file on disk
DeclaredScript == HexDecode(files.acceptor[1].challenge_output_witness_script).val

\* the operands of the OP_CHECKLOCKTIMEVERIFY of a script, as the interpreter
\* reads the push before it
CltvOperands(script) ==
    {n \in 0..16 :
        \E pc \in 2..Len(script) :
           /\ script[pc] = OP_CLTV
           /\ script[pc - 1] = IF n = 0 THEN OP_0 ELSE OP_PUSHNUM_BASE + n}

\* C35: with unmodified artifacts, the locktime of the Challenger's sweep
\* transaction (the public file's locktime) is the CHECKLOCKTIMEVERIFY operand
\* of the witness script accept-challenge wrote, the script of the challenge
\* output, and the sweep's witness satisfies that script, its locktime
\* comparison included.
C35_SweepLockTimeIsScriptOperand ==
    (cmd.name = "try_spend" /\ sweep.res.ok) =>
        /\ sweep.res.val.lock_time = cmd.given.public[1].locktime
        /\ CltvOperands(DeclaredScript) = {sweep.res.val.lock_time}
        /\ (cmd.given.acceptor[1].psbt.unsigned_tx.output[1].script_pubkey =
              new_p2wsh(WScriptHash(DeclaredScript)))
        /\ CheckLockTime(BytesItem(IF sweep.res.val.lock_time = 0 THEN <<>>
                                   ELSE <<sweep.res.val.lock_time>>),
                         [tx |-> sweep.res.val, input_index |-> 0])
        /\ VerifyInput(sweep.res.val, 0,
                       TxOut(2 * cmd.given.public[1].amount,
                             new_p2wsh(WScriptHash(DeclaredScript))))
C35_Witness ==
    /\ cmd.name = "try_spend"
    /\ sweep.res.ok
    /\ sweep.res.val.lock_time = MaxLockTime
    /\ sweep.accepted

(***************************************************************************)
(* accept-challenge with a commitment index out of range                   *)
(***************************************************************************)
OutOfRangeAccepted ==
    cmd.name = "accept" /\ cmd.selected_commitment \notin CommitmentIndexes

\* C36: accept-challenge invoked with a selected_commitment outside {0, 1}
\* ends with an error result and not a crash, builds no PSBT and writes no
\* acceptor file.
C36_OutOfRangeIsError ==
    OutOfRangeAccepted =>
        /\ ~cmd.result.ok
        /\ ~Panicked(cmd.result)
        /\ "build_challenge_tx" \notin StepsTaken
        /\ files.acceptor = None

\* C36, the part that holds: such a run does not succeed, builds no PSBT and
\* writes no acceptor file.
C36_OutOfRangeBuildsNothing ==
    OutOfRangeAccepted =>
        /\ ~cmd.result.ok
        /\ "build_challenge_tx" \notin StepsTaken
        /\ files.acceptor = None
C36_Witness ==
    /\ OutOfRangeAccepted
    /\ cmd.log[Len(cmd.log)] = "index_commitment"

(***************************************************************************)
(* A sweep whose fee exceeds the challenge output                          *)
(***************************************************************************)
FeeExceedsOutput ==
    IsSweep /\ call.args.fee > call.args.challenge_transaction.output[1].value

\* C37: sweep_challenge_output_acceptor and sweep_challenge_output_challenger
\* called with a fee greater than the value of output 0 of the challenge
\* transaction return an error and no transaction: they do not crash.
C37_ExcessFeeIsError ==
    FeeExceedsOutput => (~call.result.ok /\ ~Panicked(call.result))

\* C37, the part that holds: no transaction comes out of such a call, so no
\* output whose value wrapped around.
C37_ExcessFeeGivesNoTransaction ==
    FeeExceedsOutput => ~call.result.ok
C37_Witness ==
    /\ FeeExceedsOutput
    /\ call.name = "sweep_challenge_output_acceptor"
    /\ Len(call.args.challenge_transaction.input[1].witness) = 2
C37_WitnessChallenger ==
    /\ FeeExceedsOutput
    /\ call.name = "sweep_challenge_output_challenger"

(***************************************************************************)
(* The TransactionBuilder of the op-rand crate                             *)
(***************************************************************************)
LegacyBuilt == call.name \in {"build_initial_tx", "build_closing_tx"}
NoDepositTxStored == ~call.result.ok /\ call.result.err = "NoDepositTxStored"

\* the transaction the call built spends the deposit input stored last
SpendsLastStored ==
    call.result.ok =>
        IF call.name = "build_initial_tx"
        THEN call.result.val.input = <<legacy.stored[1]>>
        ELSE call.result.val.unsigned_tx.input =
                <<call.args.input_from_initial, legacy.stored[1]>>

\* C38: after any sequence of operations, build_initial_tx and
\* build_closing_tx fail with NoDepositTxStored if and only if neither
\* set_deposit_txin nor build_and_set_deposit_tx has been called so far; once a
\* deposit input is stored, what they build spends the one stored last.
C38_NoDepositIffNeverCalled ==
    LegacyBuilt =>
        /\ NoDepositTxStored <=>
              legacy.called \cap {"set_deposit_txin", "build_and_set_deposit_tx"} = {}
        /\ SpendsLastStored

\* C38 as amended: they fail with NoDepositTxStored if and only if no deposit
\* input has been stored so far, that is set_deposit_txin has not been called
\* and no call of build_and_set_deposit_tx has succeeded; once one is stored,
\* what they build spends the one stored last.
C38_NoDepositIffNothingStored ==
    LegacyBuilt =>
        /\ NoDepositTxStored <=> legacy.stored = None
        /\ SpendsLastStored
\* a closing transaction built after deposit inputs were stored both ways
C38_Witness ==
    /\ call.name = "build_closing_tx"
    /\ call.result.ok
    /\ {"set_deposit_txin", "build_and_set_deposit_tx"} \subseteq legacy.called
C38_WitnessNothingStored ==
    /\ LegacyBuilt
    /\ NoDepositTxStored
    /\ "build_and_set_deposit_tx" \in legacy.called

\* the public key of a secret key of the curve
PubkeyOf(sk) == PublicKey_new(PublicKeyOf(sk))

\* C39: for all valid base and tweak, the public key of
\* combine_secret_keys(base, tweak) is
\* combine_public_keys(pubkeyOf(base), pubkeyOf(tweak)).
C39_CombinedKeysCorrespond ==
    call.name = "combine_secret_keys" =>
        LET combined == combine_public_keys(PubkeyOf(call.args.pk_base),
                                            PubkeyOf(call.args.pk_tweak))
        IN  /\ call.result.ok <=> combined.ok
            /\ call.result.ok => PubkeyOf(call.result.val) = combined.val

\* C39, what holds: combine_secret_keys succeeds exactly when the public keys
\* combine, and then returns the base key with no tweak added.
C39_ReturnsBaseKey ==
    call.name = "combine_secret_keys" =>
        /\ call.result.ok <=>
              combine_public_keys(PubkeyOf(call.args.pk_base),
                                  PubkeyOf(call.args.pk_tweak)).ok
        /\ call.result.ok => call.result.val = call.args.pk_base
C39_Witness ==
    /\ call.name = "combine_secret_keys"
    /\ call.result.ok
    /\ call.args.pk_base # call.args.pk_tweak

(***************************************************************************)
(* Recovery of the funds                                                   *)
(***************************************************************************)
\* the challenge transaction is on the chain and its output 0 has been spent
ChallengeOutputSwept == ChallengeConfirmed /\ ChallengeSpends # {}

\* C11: once the challenge transaction is confirmed, if the Challenger keeps
\* trying its timelocked sweep and blocks keep being mined, the challenge
\* output is eventually swept, whichever commitments the parties selected and
\* whether or not the Acceptor sweeps.
C11_ChallengeOutputEventuallySwept == ChallengeConfirmed ~> ChallengeOutputSwept

\* the Acceptor chose the other commitment, so that it cannot sweep, and the
\* Challenger's sweep spent the output once the chain reached a lock time above 0
C11_Witness ==
    /\ ChallengeOutputSwept
    /\ ~AcceptorChoseSelected
    /\ challenge_args.lock_time > 0
    /\ height >= challenge_args.lock_time
    /\ \E k \in ChallengeSpends :
          /\ ledger[k].input[1].witness[2] = BytesItem(<<>>)
          /\ WitnessSigVerifies(ledger[k], ChallengerPubkey)


====
